---- MODULE Spec2Model ----
(***************************************************************************)
(* Model of the query-mutation core of django-queryable-properties:        *)
(* QueryablePropertiesQueryMixin (queryable_properties/query.py) on top of *)
(* the framework's Query object, driven by the property descriptors of     *)
(* tests/models.py.  One Python thread runs the calls; `frames` is its     *)
(* call stack, so nested calls (a filter that builds filters, an           *)
(* annotation that resolves references) are steps of the same behaviour.   *)
(***************************************************************************)
EXTENDS Integers, Sequences, FiniteSets, TLC

\* ------------------------------------------------------------------ bounds
MaxQueries == 2
MaxOps == 2
MaxDepth == 8
MaxThreads == 2
MaxCalls == 3
MaxItems == 4
MaxFilters == 3

\* ------------------------------------------------------- models and fields
Models == {"Application", "Version"}

\* Concrete (column) fields of the test models.
Fields(model) ==
    IF model = "Application" THEN {"name", "category", "pk"}
    ELSE {"major", "minor", "patch", "changes", "pk"}

\* Relation fields of the test models and the model each leads to.
Relations(model) ==
    IF model = "Application" THEN [versions |-> "Version"]
    ELSE [application |-> "Application"]

\* The lookup separator of query paths.
LOOKUP_SEP == "__"

\* str(QueryPath): the segments joined by the lookup separator.
RECURSIVE PathStr(_)
PathStr(path) ==
    IF path = <<>> THEN ""
    ELSE IF Len(path) = 1 THEN path[1]
    ELSE path[1] \o LOOKUP_SEP \o PathStr(Tail(path))

\* ------------------------------------------------------------ descriptors
\* A property descriptor: the model that owns it, whether it implements
\* get_filter / get_annotation, the flag filter_requires_annotation, the
\* conditions its filter is made of and the names its annotation refers to.
\*   filter = "none"    no get_filter
\*            "default" AnnotationMixin.get_filter: Q(<name>__<lookup>=value)
\*            "custom"  Q over filter_leaves, only for the lookup "exact"
Descriptor(model, filter, requires, leaves, annotates, refs, aggregate) ==
    [model |-> model, filter |-> filter, filter_requires_annotation |-> requires,
     filter_leaves |-> leaves, has_annotation |-> annotates,
     annotation_refs |-> refs, aggregate |-> aggregate]

MajorMinorVersionProperty ==
    Descriptor("Version", "custom", FALSE, << <<"major">>, <<"minor">> >>,
               FALSE, <<>>, FALSE)

FullVersionProperty ==
    Descriptor("Version", "custom", FALSE, << <<"major_minor">>, <<"patch">> >>,
               TRUE, << <<"major">>, <<"minor">>, <<"patch">> >>, FALSE)

VersionCountProperty ==
    Descriptor("Application", "default", TRUE, <<>>,
               TRUE, << <<"versions">> >>, TRUE)

DummyProperty ==
    Descriptor("Application", "none", FALSE, <<>>, FALSE, <<>>, FALSE)

\* Properties the tests query but whose declaration is not in tests/models.py.
ChangesOrDefaultProperty ==
    Descriptor("Version", "default", TRUE, <<>>,
               TRUE, << <<"changes">> >>, FALSE)

LoweredVersionChangesProperty ==
    Descriptor("Application", "default", TRUE, <<>>,
               TRUE, << <<"versions", "changes_or_default">> >>, FALSE)

\* Descriptors a model class may declare that depend on themselves.
\* self_ref: the annotation refers to the property itself.
SelfRefProperty ==
    Descriptor("Version", "default", TRUE, <<>>, TRUE, << <<"self_ref">> >>, FALSE)
\* ping / pong: each annotation refers to the other property.
PingProperty ==
    Descriptor("Version", "default", TRUE, <<>>, TRUE, << <<"pong">> >>, FALSE)
PongProperty ==
    Descriptor("Version", "default", TRUE, <<>>, TRUE, << <<"ping">> >>, FALSE)
\* loop: a filter without filter_requires_annotation that names the property.
LoopProperty ==
    Descriptor("Version", "custom", FALSE, << <<"loop">> >>, FALSE, <<>>, FALSE)
\* base / derived: base filters through derived, derived is computed from
\* base's annotation.
BaseProperty ==
    Descriptor("Version", "custom", FALSE, << <<"derived">> >>,
               TRUE, << <<"major">> >>, FALSE)
DerivedProperty ==
    Descriptor("Version", "default", TRUE, <<>>, TRUE, << <<"base">> >>, FALSE)
\* strict: filter_requires_annotation with a filter of its own that names the
\* property and accepts the lookup 'exact' only.
StrictProperty ==
    Descriptor("Version", "custom", TRUE, << <<"strict">> >>,
               TRUE, << <<"patch">> >>, FALSE)
\* no_filter: filter_requires_annotation and an annotation, but no get_filter.
NoFilterProperty ==
    Descriptor("Version", "none", TRUE, <<>>, TRUE, << <<"patch">> >>, FALSE)
\* broken: an aggregate annotation over another property and over a name
\* that is no field.
BrokenProperty ==
    Descriptor("Version", "default", TRUE, <<>>,
               TRUE, << <<"changes_or_default">>, <<"non_existent_field">> >>, TRUE)

Property ==
    [major_minor |-> MajorMinorVersionProperty,
     version |-> FullVersionProperty,
     version_count |-> VersionCountProperty,
     dummy |-> DummyProperty,
     changes_or_default |-> ChangesOrDefaultProperty,
     lowered_version_changes |-> LoweredVersionChangesProperty,
     self_ref |-> SelfRefProperty,
     ping |-> PingProperty,
     pong |-> PongProperty,
     loop |-> LoopProperty,
     base |-> BaseProperty,
     derived |-> DerivedProperty,
     strict |-> StrictProperty,
     no_filter |-> NoFilterProperty,
     broken |-> BrokenProperty]

PropertyNames == DOMAIN Property

\* get_queryable_property: the attribute `name` of `model` is a property.
IsQueryableProperty(model, name) ==
    name \in PropertyNames /\ Property[name].model = model

\* ------------------------------------------------------------- references
\* QueryablePropertyReference: the property, the model it was found on and
\* the relation path that leads from the query's model to it.
Reference(name, model, relation_path) ==
    [property |-> name, model |-> model, relation_path |-> relation_path]

\* The value the resolver returns in place of a reference when none is found.
NoReference == Reference("", "", <<>>)

\* QueryablePropertyReference.full_path: relation path + property name.
full_path(ref) == ref.relation_path \o <<ref.property>>

\* An alias that leaves out the relation path.
annotation_name_of_property(ref) == ref.property

\* The alias a reference is annotated under: str(property_ref.full_path).
annotation_name(ref) == PathStr(full_path(ref))

\* resolve_queryable_property: follow relations segment by segment; stop at
\* the first segment that is no relation; it is a property of the model
\* reached, or the path names no property.
RECURSIVE ResolveAt(_, _, _)
ResolveAt(model, path, index) ==
    IF index > Len(path) THEN [ref |-> NoReference, lookups |-> <<>>]
    ELSE LET name == path[index] IN
         IF name \in DOMAIN Relations(model)
         THEN ResolveAt(Relations(model)[name], path, index + 1)
         ELSE IF name \notin Fields(model) /\ IsQueryableProperty(model, name)
         THEN [ref |-> Reference(name, model, SubSeq(path, 1, index - 1)),
               lookups |-> SubSeq(path, index + 1, Len(path))]
         ELSE [ref |-> NoReference, lookups |-> <<>>]

resolve_queryable_property(model, path) == ResolveAt(model, path, 1)

\* The name an F() expression in the value of the conditions of the Q object
\* refers to (<<>> for plain values): the default get_filter hands the value
\* of the filter call on, the filters of tests/models.py build conditions on
\* plain values.
GetFilterValue(ref, rhs) ==
    IF Property[ref.property].filter = "default" THEN rhs ELSE <<>>

\* The lookup handed to the property's get_filter: 'exact' when none is given.
LookupOf(lookups) == IF lookups = <<>> THEN "exact" ELSE PathStr(lookups)

\* What QueryablePropertyReference.get_filter does for a reference:
\* "QueryablePropertyError" without a filter implementation,
\* "NotImplementedError" when the implementation rejects the lookup, else "ok".
GetFilterOutcome(ref, lookups) ==
    LET d == Property[ref.property] IN
    IF d.filter = "none" THEN "QueryablePropertyError"
    ELSE IF d.filter = "custom" /\ LookupOf(lookups) # "exact" THEN "NotImplementedError"
    ELSE "ok"

\* The conditions (paths) of the Q object get_filter returns: the property's
\* own conditions, each prefixed with the reference's relation path.
GetFilterLeaves(ref, lookups) ==
    LET d == Property[ref.property]
        own == IF d.filter = "default"
               THEN << <<ref.property, LookupOf(lookups)>> >>
               ELSE d.filter_leaves
    IN [i \in 1..Len(own) |-> ref.relation_path \o own[i]]

\* The expression get_annotation returns for a property.
AnnotationOf(ref) ==
    [kind |-> "property", name |-> ref.property,
     aggregate |-> Property[ref.property].aggregate]

\* The value of a frame's `annotation` local before it is assigned.
NoAnnotation == [kind |-> "none", name |-> "", aggregate |-> FALSE]

\* contains_aggregate(annotation)
contains_aggregate(annotation) == annotation.aggregate

\* ------------------------------------------------------------------ state
VARIABLES
    queries,   \* the Query objects, by identity 1..Len(queries)
    sets,      \* heap of set objects (_queryable_property_annotations)
    stacks,    \* heap of list objects (_queryable_property_stack)
    frames,    \* the call stack of the running call, outermost first
    exc,       \* the exception being propagated, or "none"
    log,       \* callbacks invoked by the current outermost call, in order
    ret,       \* the call that returned or raised last
    ops,       \* number of outermost calls started
    compiler,  \* the compiler the caller got from get_compiler and runs
    raw,       \* the raw query the caller made and iterates
    created_classes,  \* InjectableMixin._created_classes: cache key -> class
    classes,   \* the classes type() has created, by identity 1..Len(classes)
    threads,   \* the mix_with_class call each thread is in, and its locals
    returned,  \* the (cache key, class) pairs mix_with_class has returned
    pickled,   \* an object of a mixed class on its way through pickle
    tree,      \* a tree of nodes, and what modify_tree_node made of it
    admin      \* a model admin's get_list_filter call

\* What the class factory of utils.py works on.
utils == <<created_classes, classes, threads, returned, pickled, tree, admin>>

vars == <<queries, sets, stacks, frames, exc, log, ret, ops, compiler, raw, utils>>

QueryIds == 1..Len(queries)

\* query._queryable_property_annotations / _queryable_property_stack
Annotated(q) == sets[queries[q].annotations_id]
Stack(q) == stacks[queries[q].stack_id]

\* The mask value None.
NoMask == [is_none |-> TRUE, names |-> {}]
Mask(names) == [is_none |-> FALSE, names |-> names]

Aliases(query) == DOMAIN query.annotations

\* Query.annotation_select: the annotations the mask lets through.
annotation_select(query) ==
    IF query.annotation_select_mask.is_none THEN Aliases(query)
    ELSE Aliases(query) \cap query.annotation_select_mask.names

\* Query.set_annotation_mask(names)
set_annotation_mask(query, names) ==
    [query EXCEPT !.annotation_select_mask = Mask(names)]

\* Query.append_annotation_mask(names): a None mask stays None.
append_annotation_mask(query, names) ==
    IF query.annotation_select_mask.is_none THEN query
    ELSE set_annotation_mask(query, query.annotation_select_mask.names \cup names)

\* annotations[alias] = annotation
PutAnnotation(annotations, alias, annotation) ==
    [a \in DOMAIN annotations \cup {alias} |->
        IF a = alias THEN annotation ELSE annotations[a]]

\* What a call sees of its query when it starts.
Snapshot(q) ==
    [selected |-> annotation_select(queries[q]),
     aliases |-> Aliases(queries[q]),
     annotated |-> Annotated(q),
     stack |-> Stack(q),
     mask |-> queries[q].annotation_select_mask,
     marker |-> queries[q].use_querying_properties_marker]

\* ---------------------------------------------------- native name resolving
\* Lookups the framework's fields accept in a filter condition.
NativeLookups == {"exact", "gt"}

AllLookups(names) == \A i \in 1..Len(names) : names[i] \in NativeLookups

\* refs_expression: a leading part of the path is an annotation alias.
RefsExpression(query, path) ==
    \E n \in 1..Len(path) :
        /\ PathStr(SubSeq(path, 1, n)) \in Aliases(query)
        /\ AllLookups(SubSeq(path, n + 1, Len(path)))

\* The framework's names_to_path: follow relations, end at a concrete field
\* (or a selected annotation); what is left over must be lookups.
RECURSIVE NativeNamesToPath(_, _, _, _)
NativeNamesToPath(query, model, names, index) ==
    IF index > Len(names) THEN index > 1
    ELSE LET name == names[index]
             rest == SubSeq(names, index + 1, Len(names))
         IN IF name \in DOMAIN Relations(model)
            THEN NativeNamesToPath(query, Relations(model)[name], names, index + 1)
            ELSE IF name \in Fields(model) \/ name \in annotation_select(query)
            THEN AllLookups(rest)
            ELSE index > 1 /\ AllLookups(SubSeq(names, index, Len(names)))

\* query.py 353-354: the names behind the relation path of the top of the
\* stack, if there is one.
NamesPrefixed(q, names) ==
    IF Stack(q) # <<>>
    THEN Stack(q)[Len(Stack(q))].relation_path \o names
    ELSE names

\* query.py 348-356, names_to_path: the framework resolves the prefixed names.
names_to_path(q, names) ==
    NativeNamesToPath(queries[q], queries[q].model, NamesPrefixed(q, names), 1)

\* The framework's build_filter on a condition: "ok" or its FieldError.
NativeBuildFilter(q, path) ==
    IF RefsExpression(queries[q], path) \/ names_to_path(q, path)
    THEN "ok" ELSE "FieldError"

\* The framework's resolve_ref on a name: an annotation alias or a field path.
NativeResolveRef(q, path) ==
    IF PathStr(path) \in Aliases(queries[q])
       \/ (names_to_path(q, path) /\ ~(\E i \in 1..Len(path) : path[i] \in NativeLookups))
    THEN "ok" ELSE "FieldError"

\* The framework's add_ordering on one item (its leading '-' removed).
NativeAddOrdering(q, path) ==
    IF PathStr(path) \in Aliases(queries[q]) \/ names_to_path(q, path)
    THEN "ok" ELSE "FieldError"

\* ------------------------------------------------------------ call frames
\* What a call returns: nothing (None), an annotation expression, a Ref to an
\* annotation under a name, or whatever the framework's method returns.
NoValue == [kind |-> "none", name |-> "", annotation |-> NoAnnotation]
AnnotationValue(annotation) ==
    [kind |-> "annotation", name |-> "", annotation |-> annotation]
Ref(name, annotation) == [kind |-> "Ref", name |-> name, annotation |-> annotation]
NativeValue(name) == [kind |-> "native", name |-> name, annotation |-> NoAnnotation]

\* One activation record.  op names the function, pc the place in it.
Frame(op, q, path) ==
    [op |-> op, q |-> q, pc |-> "start", path |-> path,
     ref |-> NoReference, select |-> FALSE, full_group_by |-> FALSE,
     mask |-> {}, pushed |-> FALSE, todo |-> <<>>, body |-> "none",
     leaves |-> <<>>, annotation |-> NoAnnotation, native |-> FALSE,
     summarize |-> FALSE, value |-> NoValue, unpack |-> "ok",
     model |-> "None", rhs |-> <<>>, items |-> <<>>, pre |-> Snapshot(q)]

\* The frame of `with self._add_queryable_property_annotation(...)`: BODY.
AnnotationFrame(q, ref, full_group_by, select, body, leaves) ==
    [Frame("_add_queryable_property_annotation", q, full_path(ref)) EXCEPT
        !.pc = "enter", !.ref = ref, !.select = select,
        !.full_group_by = full_group_by, !.body = body, !.leaves = leaves]

Top == frames[Len(frames)]
Running == frames # <<>> /\ exc = "none"
Idle == frames = <<>> /\ exc = "none"
At(op, pc) == Running /\ Top.op = op /\ Top.pc = pc

\* The record of a call that ended: what it was, how it ended, what it saw
\* when it started and how deep in the call stack it ran.
Ended(frame, result) ==
    [op |-> frame.op, q |-> frame.q, path |-> frame.path, ref |-> frame.ref,
     select |-> frame.select, native |-> frame.native, result |-> result,
     summarize |-> frame.summarize,
     value |-> IF result = "ok" THEN frame.value ELSE NoValue,
     pre |-> frame.pre, depth |-> Len(frames) - 1, clone |-> 0, hook |-> FALSE,
     before |-> "none", kwargs |-> {}]

NoCall ==
    [op |-> "none", q |-> 0, path |-> <<>>, ref |-> NoReference,
     select |-> FALSE, native |-> FALSE, result |-> "none",
     summarize |-> FALSE, value |-> NoValue,
     pre |-> [selected |-> {}, aliases |-> {}, annotated |-> {}, stack |-> <<>>,
              mask |-> NoMask, marker |-> FALSE],
     depth |-> 0, clone |-> 0, hook |-> FALSE, before |-> "none", kwargs |-> {}]

\* A callback of the property (or a framework method) is invoked.
Event(call, q, ref) ==
    [call |-> call, q |-> q, ref |-> ref, path |-> full_path(ref),
     args |-> <<>>, columns |-> {}, mask |-> queries[q].annotation_select_mask,
     depth |-> Len(Stack(q)),
     annotated |-> ref \in Annotated(q),
     stacked |-> \E i \in 1..Len(Stack(q)) : Stack(q)[i] = ref,
     top |-> Stack(q) # <<>> /\ Stack(q)[Len(Stack(q))] = ref]

\* ---------------------------------------------------------------- compiler
QUERYING_PROPERTIES_MARKER == "__querying_properties__"

\* A compiler object: the query it compiles, whether the compiler mixin was
\* injected (hook), how far the caller has run it, the column map the
\* framework's setup_query computed and the one the compiler has, the rows
\* the framework's results_iter yields and the rows yielded to the caller.
NewCompiler(q, hook) ==
    [q |-> q, hook |-> hook, phase |-> "new",
     native_col_map |-> <<>>, annotation_col_map |-> <<>>,
     native_rows |-> <<>>, rows |-> <<>>]

\* The caller has no compiler.
NoCompiler == [NewCompiler(0, FALSE) EXCEPT !.phase = "none"]

\* OrderedDict as a sequence of <<key, value>>.  d[key] = value keeps the
\* place of a key that is there and puts a new key last.
OrderedDictSet(d, key, value) ==
    IF \E i \in 1..Len(d) : d[i][1] = key
    THEN [i \in 1..Len(d) |-> IF d[i][1] = key THEN <<key, value>> ELSE d[i]]
    ELSE Append(d, <<key, value>>)

\* OrderedDict.update(other)
RECURSIVE OrderedDictUpdate(_, _)
OrderedDictUpdate(d, other) ==
    IF other = <<>> THEN d
    ELSE OrderedDictUpdate(OrderedDictSet(d, Head(other)[1], Head(other)[2]),
                           Tail(other))

\* query.py 62-69, setup_query: a new map with the marker first, at index
\* -1, updated with the map the framework computed.
setup_query(annotation_col_map) ==
    OrderedDictUpdate(OrderedDictSet(<<>>, QUERYING_PROPERTIES_MARKER, -1),
                      annotation_col_map)

\* A row with the marker value in front.
MarkedRowFirst(row) == <<"True">> \o row

\* query.py 78-80: the row with the marker value True appended.
MarkedRow(row) == row \o <<"True">>

\* --------------------------------------------------------------- raw query
\* A raw query with the mixin: the marker flag, the result of the last
\* get_columns call (and the flag it found), how far the iteration is, the
\* rows of the framework's iterator and the rows yielded so far, each with
\* the flag found when it was yielded.
NewRawQuery ==
    [phase |-> "new", use_marker |-> FALSE, got_columns |-> FALSE,
     columns |-> <<>>, columns_marker |-> FALSE,
     native_rows |-> <<>>, rows |-> <<>>, markers |-> <<>>]

\* No raw query is at hand.
NoRawQuery == [NewRawQuery EXCEPT !.phase = "none"]

\* The columns of the framework's RawQuery.get_columns, and the rows its
\* iterator may give.
RawColumns == <<"id", "name">>
RawResults == {<<>>, << <<"2", "b">>, <<"1", "a">> >>}

\* query.py 335-338: columns.insert(0, QUERYING_PROPERTIES_MARKER) if the
\* flag is set.
get_columns(use_marker, columns) ==
    IF use_marker THEN <<QUERYING_PROPERTIES_MARKER>> \o columns ELSE columns

\* A row with the value behind its last value.
RawRowMarkedLast(use_marker, row) ==
    IF use_marker THEN row \o <<"True">> ELSE row

\* query.py 108-110: row = row.__class__((True,)) + row if the flag is set.
RawRow(use_marker, row) ==
    IF use_marker THEN <<"True">> \o row ELSE row

\* ---------------------------------------------------------- class factory
\* The classes mixins are mixed into, the mixins, and the names callers give
\* to the class to create ("None": no name given).
BaseClasses == {"Query", "RawQuery"}
MixinClasses == {"QueryablePropertiesQueryMixin", "QueryablePropertiesCompilerMixin"}
ClassNames == {"None", "Query"}

\* A name that is taken as it is given.
CreatedClassNameGiven(base_class, class_name) == class_name

\* utils.py 84: class_name = str(class_name or base_class.__name__)
CreatedClassName(base_class, class_name) ==
    IF class_name = "None" THEN base_class ELSE class_name

\* utils.py 85: cache_key = (base_class, cls, class_name)
CacheKey(base_class, cls, class_name) ==
    <<base_class, cls, CreatedClassName(base_class, class_name)>>

CacheKeys ==
    {CacheKey(base_class, cls, class_name) :
        base_class \in BaseClasses, cls \in MixinClasses, class_name \in ClassNames}

\* The value of dict.get for a key that is not there.
NoClass == 0

\* utils.py 92-93: type(class_name, (cls, base_class), {'__reduce__': ...});
\* the closure of __reduce__ holds the three parts of the key.
NewClass(key) ==
    [name |-> key[3], bases |-> <<key[2], key[1]>>, reduce |-> key]

Threads == 1..MaxThreads

\* A thread that is not in mix_with_class, and the calls it has made.
IdleThread ==
    [pc |-> "idle", key |-> <<"", "", "">>, created_class |-> NoClass, calls |-> 0]

\* The calls the threads up to thread t have made.
RECURSIVE CallsMade(_)
CallsMade(t) == IF t = 0 THEN 0 ELSE threads[t].calls + CallsMade(t - 1)

\* utils.py 84-85: a thread calls cls.mix_with_class(base_class, class_name).
MixWithClass(t) ==
    /\ threads[t].pc = "idle"
    /\ CallsMade(MaxThreads) < MaxCalls
    /\ \E base_class \in BaseClasses, cls \in MixinClasses, class_name \in ClassNames :
          threads' = [threads EXCEPT ![t].pc = "get",
                                     ![t].key = CacheKey(base_class, cls, class_name),
                                     ![t].created_class = NoClass,
                                     ![t].calls = @ + 1]
    /\ UNCHANGED <<created_classes, classes, returned>>
    /\ UNCHANGED <<queries, sets, stacks, frames, exc, log, ret, ops, compiler, raw>>
    /\ UNCHANGED <<tree, admin>>
    /\ UNCHANGED pickled

\* utils.py 86-87: created_class = cls._created_classes.get(cache_key), and
\* the test for None.
MixGet(t) ==
    /\ threads[t].pc = "get"
    /\ LET found == created_classes[threads[t].key]
       IN threads' = [threads EXCEPT ![t].created_class = found,
                                     ![t].pc = IF found = NoClass THEN "create"
                                               ELSE "return"]
    /\ UNCHANGED <<created_classes, classes, returned>>
    /\ UNCHANGED <<queries, sets, stacks, frames, exc, log, ret, ops, compiler, raw>>
    /\ UNCHANGED <<tree, admin>>
    /\ UNCHANGED pickled

\* utils.py 92-93, right side: type() makes a new class.
MixCreate(t) ==
    /\ threads[t].pc = "create"
    /\ classes' = Append(classes, NewClass(threads[t].key))
    /\ threads' = [threads EXCEPT ![t].created_class = Len(classes) + 1,
                                  ![t].pc = "store"]
    /\ UNCHANGED <<created_classes, returned>>
    /\ UNCHANGED <<queries, sets, stacks, frames, exc, log, ret, ops, compiler, raw>>
    /\ UNCHANGED <<tree, admin>>
    /\ UNCHANGED pickled

\* utils.py 92, left side: cls._created_classes[cache_key] = created_class.
MixStore(t) ==
    /\ threads[t].pc = "store"
    /\ created_classes' =
          [created_classes EXCEPT ![threads[t].key] = threads[t].created_class]
    /\ threads' = [threads EXCEPT ![t].pc = "return"]
    /\ UNCHANGED <<classes, returned>>
    /\ UNCHANGED <<queries, sets, stacks, frames, exc, log, ret, ops, compiler, raw>>
    /\ UNCHANGED <<tree, admin>>
    /\ UNCHANGED pickled

\* utils.py 94: return created_class.
MixReturn(t) ==
    /\ threads[t].pc = "return"
    /\ returned' = returned \cup
          {[key |-> threads[t].key, class |-> threads[t].created_class]}
    /\ threads' = [threads EXCEPT ![t].pc = "idle"]
    /\ UNCHANGED <<created_classes, classes>>
    /\ UNCHANGED <<queries, sets, stacks, frames, exc, log, ret, ops, compiler, raw>>
    /\ UNCHANGED <<tree, admin>>
    /\ UNCHANGED pickled

\* ----------------------------------------------------------------- pickle
\* mix_with_class run by one caller from its first to its last statement
\* (utils.py 84-94): the class of the key, the classes made and the cache
\* after the call.
mix_with_class(cache, made, base_class, cls, class_name) ==
    LET cache_key == CacheKey(base_class, cls, class_name)
        found == cache[cache_key]
    IN IF found # NoClass
       THEN [class |-> found, classes |-> made, cache |-> cache]
       ELSE [class |-> Len(made) + 1,
             classes |-> Append(made, NewClass(cache_key)),
             cache |-> [cache EXCEPT ![cache_key] = Len(made) + 1]]

\* The attributes init_injected_attrs of a mixin sets, with the values it
\* gives them: query.py 112-120 for the query mixin, none (utils.py 62-68)
\* for the compiler mixin.
InjectedAttrs(cls) ==
    IF cls = "QueryablePropertiesQueryMixin"
    THEN [queryable_property_annotations |-> "set()",
          queryable_property_stack |-> "[]",
          use_querying_properties_marker |-> "False"]
    ELSE <<>>

\* dict.update: the entries of `more` are put over those of `dict`.
Updated(dict, more) ==
    [name \in DOMAIN dict \cup DOMAIN more |->
        IF name \in DOMAIN more THEN more[name] ELSE dict[name]]

\* init_injected_attrs on an object with the attribute dictionary `dict`.
InitInjectedAttrs(cls, dict) == Updated(dict, InjectedAttrs(cls))

\* The attribute dictionaries an object of a mixed class may have come to:
\* an attribute of the base class, and values the injected attributes got.
ObjectDicts(cls) ==
    IF cls = "QueryablePropertiesQueryMixin"
    THEN {[model |-> model,
           queryable_property_annotations |-> annotations,
           queryable_property_stack |-> "[]",
           use_querying_properties_marker |-> marker] :
             model \in {"Application", "Version"},
             annotations \in {"set()", "{version}"},
             marker \in {"False", "True"}}
    ELSE {[query |-> query, using |-> "default"] : query \in {"q1", "q2"}}

\* An object: its class (an identity in `classes`) and its __dict__.
Object(class, dict) == [class |-> class, dict |-> dict]
NoObject == Object(NoClass, <<>>)

\* A __reduce__ that leaves the class name out of the arguments.
reduce_without_class_name(class, dict) ==
    [args |-> <<class.reduce[1], class.reduce[2], "None">>, state |-> dict]

\* utils.py 89-90: __reduce__ returns the unpickling function, the three
\* values the class was created from, and self.__dict__.
reduce(class, dict) == [args |-> class.reduce, state |-> dict]

NothingReduced == [args |-> <<"", "", "">>, state |-> <<>>]

\* Nothing is on its way through pickle.
NothingPickled ==
    [phase |-> "none", original |-> NoObject, reduced |-> NothingReduced,
     restored |-> NoObject, fresh |-> <<>>]

\* utils.py 96-109 and after: an object of a base class gets the mixin
\* injected (inject_into_object: its class becomes the mixed class and
\* init_injected_attrs runs) and is used, which leaves it with some
\* attribute dictionary.
InjectIntoObject ==
    /\ pickled.phase \in {"none", "restored"}
    /\ Len(classes) < MaxCalls
    /\ \E base_class \in BaseClasses, cls \in MixinClasses, class_name \in ClassNames :
         \E dict \in ObjectDicts(cls) :
            LET mixed == mix_with_class(created_classes, classes,
                                        base_class, cls, class_name)
            IN /\ created_classes' = mixed.cache
               /\ classes' = mixed.classes
               /\ pickled' = [NothingPickled EXCEPT
                                 !.phase = "object",
                                 !.original = Object(mixed.class, dict)]
    /\ UNCHANGED <<threads, returned>>
    /\ UNCHANGED <<queries, sets, stacks, frames, exc, log, ret, ops, compiler, raw>>
    /\ UNCHANGED <<tree, admin>>

\* pickle.dumps: __reduce__ of the object's class is called (utils.py 89-90).
Reduce ==
    /\ pickled.phase = "object"
    /\ pickled' = [pickled EXCEPT
                      !.phase = "reduced",
                      !.reduced = reduce(classes[pickled.original.class],
                                         pickled.original.dict)]
    /\ UNCHANGED <<created_classes, classes, threads, returned>>
    /\ UNCHANGED <<queries, sets, stacks, frames, exc, log, ret, ops, compiler, raw>>
    /\ UNCHANGED <<tree, admin>>

\* The pickle is loaded in a process that has not created any class yet.
NewProcess ==
    /\ pickled.phase = "reduced"
    /\ created_classes # [key \in CacheKeys |-> NoClass]
    /\ created_classes' = [key \in CacheKeys |-> NoClass]
    /\ UNCHANGED <<classes, threads, returned, pickled>>
    /\ UNCHANGED <<queries, sets, stacks, frames, exc, log, ret, ops, compiler, raw>>
    /\ UNCHANGED <<tree, admin>>

\* utils.py 132-134, _unpickle_injected_object: an object of the base class
\* is made without __init__, and inject_into_object (107-109) gives it the
\* mixed class and runs init_injected_attrs.
UnpickleInjectedObject ==
    /\ pickled.phase = "reduced"
    /\ LET args == pickled.reduced.args
           mixed == mix_with_class(created_classes, classes,
                                   args[1], args[2], args[3])
           obj == Object(mixed.class, InitInjectedAttrs(args[2], <<>>))
       IN /\ created_classes' = mixed.cache
          /\ classes' = mixed.classes
          /\ pickled' = [pickled EXCEPT !.phase = "unpickled", !.restored = obj,
                                        !.fresh = obj.dict]
    /\ UNCHANGED <<threads, returned>>
    /\ UNCHANGED <<queries, sets, stacks, frames, exc, log, ret, ops, compiler, raw>>
    /\ UNCHANGED <<tree, admin>>

\* pickle.loads, last step: the state of the reduce value is put into the
\* __dict__ of the object the unpickling function returned.
RestoreState ==
    /\ pickled.phase = "unpickled"
    /\ pickled' = [pickled EXCEPT
                      !.phase = "restored",
                      !.restored.dict = Updated(@, pickled.reduced.state)]
    /\ UNCHANGED <<created_classes, classes, threads, returned>>
    /\ UNCHANGED <<queries, sets, stacks, frames, exc, log, ret, ops, compiler, raw>>
    /\ UNCHANGED <<tree, admin>>

\* ------------------------------------------------------------------- tree
\* A tree.Node is its list of children; a child is another node (by
\* identity: its place in the heap `nodes`) or a value that is no node.
NodeChild(id) == [kind |-> "node", value |-> id]
Leaf(value) == [kind |-> "leaf", value |-> value]
LeafValues == {1, 2}

\* The callables passed as func, and what they return.
Funcs == {"prefixed", "constant"}
Apply(func, value) == IF func = "prefixed" THEN value + 10 ELSE 0

\* The positions of a node's children that hold nodes.
NodePositions(children) ==
    {i \in 1..Len(children) : children[i].kind = "node"}

\* The nodes of the tree under (and with) the node `id`.
RECURSIVE Reachable(_, _)
Reachable(nodes, id) ==
    {id} \cup UNION {Reachable(nodes, nodes[id][i].value) :
                        i \in NodePositions(nodes[id])}

\* utils.py 155, copy false: the node itself is worked on.
in_place(nodes, id) ==
    [nodes |-> nodes, node |-> id, memo |-> [r \in Reachable(nodes, id) |-> r]]

\* A deepcopy that hands the node itself back.
no_copy(nodes, id) == in_place(nodes, id)

\* copy.deepcopy(node), utils.py 155-156: every node under `id` gets one
\* new node (deepcopy's memo: a node met twice is copied once), whose node
\* children are the copies and whose other children are copies equal to
\* the originals.
deepcopy(nodes, id) ==
    LET under == Reachable(nodes, id)
        memo == [r \in under |->
                   Len(nodes) + Cardinality({x \in under : x <= r})]
        original(k) == CHOOSE r \in under : memo[r] = Len(nodes) + k
        copied(children) ==
            [i \in 1..Len(children) |->
                IF children[i].kind = "node"
                THEN NodeChild(memo[children[i].value])
                ELSE children[i]]
    IN [nodes |-> nodes \o [k \in 1..Cardinality(under) |->
                               copied(nodes[original(k)])],
        node |-> memo[id],
        memo |-> memo]

\* utils.py 158-162, the loop of modify_tree_node over node.children from
\* the child at `index` on, with the recursive call for a child that is a
\* node (160, copy=False) and func for any other (162). `work` holds the
\* heap and the positions func has been called for.
RECURSIVE modify_children(_, _, _, _)
modify_children(work, id, index, func) ==
    IF index > Len(work.nodes[id])
    THEN work
    ELSE LET child == work.nodes[id][index]
         IN IF child.kind = "node"
            THEN modify_children(
                     modify_children(work, child.value, 1, func),
                     id, index + 1, func)
            ELSE modify_children(
                     [nodes |-> [work.nodes EXCEPT
                                   ![id][index] = Leaf(Apply(func, child.value))],
                      applied |-> Append(work.applied, <<id, index>>)],
                     id, index + 1, func)

\* utils.py 139-164, modify_tree_node(node, func, copy): the heap after the
\* call, the node returned, the calls of func, and which node stands for
\* which node of the input.
modify_tree_node(nodes, id, func, copy) ==
    LET start == IF copy THEN deepcopy(nodes, id) ELSE in_place(nodes, id)
        done == modify_children([nodes |-> start.nodes, applied |-> <<>>],
                                start.node, 1, func)
    IN [nodes |-> done.nodes, node |-> start.node,
        applied |-> done.applied, memo |-> start.memo]

\* The number of child positions in the heap.
RECURSIVE Items(_)
Items(nodes) ==
    IF nodes = <<>> THEN 0 ELSE Len(Head(nodes)) + Items(Tail(nodes))

\* One node without children, nothing modified.
NewTree ==
    [phase |-> "built", nodes |-> << <<>> >>, func |-> "", copy |-> FALSE,
     result |-> <<>>, returned |-> 0, applied |-> <<>>, memo |-> <<>>]

\* tree.Node(): start over with a node without children.
TreeNode ==
    /\ tree # NewTree
    /\ tree' = NewTree
    /\ UNCHANGED <<created_classes, classes, threads, returned, pickled>>
    /\ UNCHANGED <<queries, sets, stacks, frames, exc, log, ret, ops, compiler, raw>>
    /\ UNCHANGED admin

\* A value that is no node is added to the children of a node.
TreeAddLeaf ==
    /\ tree.phase = "built"
    /\ Items(tree.nodes) < MaxItems
    /\ \E id \in 1..Len(tree.nodes), value \in LeafValues :
          tree' = [tree EXCEPT !.nodes[id] = Append(@, Leaf(value))]
    /\ UNCHANGED <<created_classes, classes, threads, returned, pickled>>
    /\ UNCHANGED <<queries, sets, stacks, frames, exc, log, ret, ops, compiler, raw>>
    /\ UNCHANGED admin

\* A new node is added to the children of a node.
TreeAddNode ==
    /\ tree.phase = "built"
    /\ Items(tree.nodes) < MaxItems
    /\ \E id \in 1..Len(tree.nodes) :
          tree' = [tree EXCEPT
                     !.nodes = Append([@ EXCEPT ![id] =
                                          Append(@, NodeChild(Len(tree.nodes) + 1))],
                                      <<>>)]
    /\ UNCHANGED <<created_classes, classes, threads, returned, pickled>>
    /\ UNCHANGED <<queries, sets, stacks, frames, exc, log, ret, ops, compiler, raw>>
    /\ UNCHANGED admin

\* A node that is in the tree already is added to the children of a node
\* once more, as in Q(q, q).
TreeAddSame ==
    /\ tree.phase = "built"
    /\ Items(tree.nodes) < MaxItems
    /\ \E id \in 1..Len(tree.nodes), same \in 1..Len(tree.nodes) :
          /\ same > id
          /\ tree' = [tree EXCEPT !.nodes[id] = Append(@, NodeChild(same))]
    /\ UNCHANGED <<created_classes, classes, threads, returned, pickled>>
    /\ UNCHANGED <<queries, sets, stacks, frames, exc, log, ret, ops, compiler, raw>>
    /\ UNCHANGED admin

\* modify_tree_node(node, func, copy) is called with the root node.
ModifyTreeNode ==
    /\ tree.phase = "built"
    /\ \E func \in Funcs, copy \in BOOLEAN :
          LET modified == modify_tree_node(tree.nodes, 1, func, copy)
          IN tree' = [tree EXCEPT
                        !.phase = "modified", !.func = func, !.copy = copy,
                        !.result = modified.nodes, !.returned = modified.node,
                        !.applied = modified.applied, !.memo = modified.memo]
    /\ UNCHANGED <<created_classes, classes, threads, returned, pickled>>
    /\ UNCHANGED <<queries, sets, stacks, frames, exc, log, ret, ops, compiler, raw>>
    /\ UNCHANGED admin

\* ------------------------------------------------------------------ admin
\* The items of a list_filter: a callable (a filter class or function), a
\* field name, or a pair of a field name and a filter class.
CallableItem == [kind |-> "callable", field_name |-> "", filter_class |-> "ListFilter"]
NameItem(field_name) ==
    [kind |-> "name", field_name |-> field_name, filter_class |-> "None"]
PairItem(field_name, filter_class) ==
    [kind |-> "pair", field_name |-> field_name, filter_class |-> filter_class]
\* What get_filter_creator returns for a field name and a filter class.
FilterCreator(field_name, filter_class) ==
    [kind |-> "creator", field_name |-> field_name, filter_class |-> filter_class]

ListFilterNames == {"version_count", "name"}
ListFilterItems ==
    {CallableItem}
      \cup {NameItem(name) : name \in ListFilterNames}
      \cup {PairItem(name, "FieldListFilter") : name \in ListFilterNames}

\* callable(item), admin/__init__.py 68.
Callable(item) == item.kind \in {"callable", "creator"}

\* The sequences over `items` of length up to `n`.
RECURSIVE SeqsUpTo(_, _)
SeqsUpTo(items, n) ==
    IF n = 0 THEN {<<>>}
    ELSE LET shorter == SeqsUpTo(items, n - 1)
         IN shorter \cup {Append(seq, item) : seq \in shorter, item \in items}

\* QueryablePropertyField(admin, field_name).get_filter_creator(filter_class)
\* (admin/filters.py): the creator for a name that resolves to a queryable
\* property of the admin's model, QueryablePropertyError for one that
\* does not.
GetFilterCreator(model, field_name, filter_class) ==
    IF IsQueryableProperty(model, field_name)
    THEN [raised |-> "None", creator |-> FilterCreator(field_name, filter_class)]
    ELSE [raised |-> "QueryablePropertyError",
          creator |-> FilterCreator("", "None")]

\* An except clause that lets every exception through.
CaughtNever(exception) == FALSE

\* admin/__init__.py 75: except QueryablePropertyError.
Caught(exception) == exception = "QueryablePropertyError"

NoAdminCall ==
    [phase |-> "none", model |-> "Application", list_filter |-> <<>>,
     expanded_filters |-> <<>>, error |-> "None"]

\* admin/__init__.py 64-66: get_list_filter is called on the admin of a
\* model; the base class hands back its list_filter, and the list of the
\* expanded filters is empty.
GetListFilter ==
    /\ admin.phase \in {"none", "returned", "raised"}
    /\ \E model \in Models, list_filter \in SeqsUpTo(ListFilterItems, MaxFilters) :
          admin' = [phase |-> "loop", model |-> model, list_filter |-> list_filter,
                    expanded_filters |-> <<>>, error |-> "None"]
    /\ UNCHANGED <<created_classes, classes, threads, returned, pickled, tree>>
    /\ UNCHANGED <<queries, sets, stacks, frames, exc, log, ret, ops, compiler, raw>>

\* admin/__init__.py 67-77, one round of the loop: a callable item is
\* appended as it is; of any other the field name and filter class are
\* taken (69-72) and the filter creator is asked for (74), which replaces
\* the item, unless the error caught in 75 is raised and the item stays.
ListFilterItem ==
    /\ admin.phase = "loop"
    /\ Len(admin.expanded_filters) < Len(admin.list_filter)
    /\ LET item == admin.list_filter[Len(admin.expanded_filters) + 1]
           outcome == GetFilterCreator(admin.model, item.field_name,
                                       item.filter_class)
       IN IF Callable(item)
          THEN admin' = [admin EXCEPT !.expanded_filters = Append(@, item)]
          ELSE IF outcome.raised = "None"
          THEN admin' = [admin EXCEPT
                           !.expanded_filters = Append(@, outcome.creator)]
          ELSE IF Caught(outcome.raised)
          THEN admin' = [admin EXCEPT !.expanded_filters = Append(@, item)]
          ELSE admin' = [admin EXCEPT !.phase = "raised",
                                      !.error = outcome.raised]
    /\ UNCHANGED <<created_classes, classes, threads, returned, pickled, tree>>
    /\ UNCHANGED <<queries, sets, stacks, frames, exc, log, ret, ops, compiler, raw>>

\* admin/__init__.py 78: the loop is over, expanded_filters is returned.
ListFilterReturn ==
    /\ admin.phase = "loop"
    /\ Len(admin.expanded_filters) = Len(admin.list_filter)
    /\ admin' = [admin EXCEPT !.phase = "returned"]
    /\ UNCHANGED <<created_classes, classes, threads, returned, pickled, tree>>
    /\ UNCHANGED <<queries, sets, stacks, frames, exc, log, ret, ops, compiler, raw>>

\* ------------------------------------------------------------ construction
\* An initialisation that leaves the marker as it finds it.
init_injected_attrs_keep_marker(query, set_id, stack_id) ==
    [query EXCEPT !.annotations_id = set_id, !.stack_id = stack_id]

\* init_injected_attrs: a new empty set, a new empty list, marker off.
\* The new objects get the next free identities of the two heaps.
init_injected_attrs(query, set_id, stack_id) ==
    [query EXCEPT !.annotations_id = set_id, !.stack_id = stack_id,
                  !.use_querying_properties_marker = FALSE]

\* A Query of `model` as the framework constructs it, before injection.
NewQuery(model) ==
    [model |-> model, annotations |-> <<>>, annotation_select_mask |-> NoMask,
     group_by |-> "None", annotations_id |-> 0, stack_id |-> 0,
     use_querying_properties_marker |-> FALSE, registrations |-> <<>>]

Init ==
    /\ \E model \in Models :
          queries = << init_injected_attrs(NewQuery(model), 1, 1) >>
    /\ sets = << {} >>
    /\ stacks = << <<>> >>
    /\ frames = <<>>
    /\ exc = "none"
    /\ log = <<>>
    /\ ret = NoCall
    /\ ops = 0
    /\ compiler = NoCompiler
    /\ raw = NoRawQuery
    /\ created_classes = [key \in CacheKeys |-> NoClass]
    /\ classes = <<>>
    /\ threads = [t \in Threads |-> IdleThread]
    /\ returned = {}
    /\ pickled = NothingPickled
    /\ tree = NewTree
    /\ admin = NoAdminCall

\* Compatibility constants of queryable_properties.compat for the current
\* framework: annotations are not tied to aggregates, and there is no
\* ValuesQuerySet class.
ANNOTATION_TO_AGGREGATE_ATTRIBUTES_MAP == FALSE
ValuesQuerySet == FALSE

Last(seq) == seq[Len(seq)]
Front(seq) == SubSeq(seq, 1, Len(seq) - 1)
Contains(seq, x) == \E i \in 1..Len(seq) : seq[i] = x

\* The top frame replaced by `frame`.
WithTop(frame) == [frames EXCEPT ![Len(frames)] = frame]

\* `caller` (the top frame, updated) calls `callee`; the interpreter raises
\* RecursionError when the call stack is full.
CallFrom(caller, callee) ==
    IF Len(frames) < MaxDepth
    THEN /\ frames' = Append(WithTop(caller), callee)
         /\ exc' = "none"
    ELSE /\ frames' = WithTop(caller)
         /\ exc' = "RecursionError"

\* The top frame, updated to `frame`, returns / raises.
ReturnFrom(frame) ==
    /\ frames' = Front(frames)
    /\ ret' = Ended(frame, "ok")
    /\ exc' = "none"

RaiseFrom(frame, error) ==
    /\ frames' = WithTop(frame)
    /\ exc' = error
    /\ ret' = ret

\* ------------------------------------------------------------ build_filter
\* A guard that never finds the reference on top of the stack.
TopOfStackNever(q, ref) == FALSE

\* A guard that also fires for a reference the query has annotated.
TopOfStackOrAnnotated(q, ref) ==
    \/ stacks[queries[q].stack_id] # <<>>
          /\ stacks[queries[q].stack_id][Len(stacks[queries[q].stack_id])] = ref
    \/ ref \in sets[queries[q].annotations_id]

\* query.py 296: the reference is the current top of the stack.
TopOfStack(q, ref) == Stack(q) # <<>> /\ Last(Stack(q)) = ref

\* A build_filter that takes the first item of the expression for the path
\* whether or not the expression is a pair.
PropertyOfFilterFirstItem(model, frame) ==
    IF frame.unpack = "ok" THEN resolve_queryable_property(model, frame.path)
    ELSE IF frame.items = <<>> THEN [ref |-> NoReference, lookups |-> <<>>]
    ELSE resolve_queryable_property(model, frame.items[1])

\* query.py 281-288: `arg, value = filter_expr`; an expression that is no
\* pair (frame.unpack is the TypeError or ValueError of the unpacking) stands
\* for no property, else the path is resolved.
PropertyOfFilter(model, frame) ==
    IF frame.unpack # "ok" THEN [ref |-> NoReference, lookups |-> <<>>]
    ELSE resolve_queryable_property(model, frame.path)

\* The framework's build_filter on the expression given: it unpacks the
\* expression itself, and resolves the path of a pair.
NativeBuildFilterExpr(q, frame) ==
    IF frame.unpack # "ok" THEN frame.unpack ELSE NativeBuildFilter(q, frame.path)

\* query.py 276-300: the condition names no property, or names the property
\* on top of the stack: the framework's build_filter decides.
BuildFilterNative ==
    /\ At("build_filter", "start")
    /\ LET f == Top
           q == f.q
           r == PropertyOfFilter(queries[q].model, f)
           guarded == TopOfStack(q, r.ref)
           g == [f EXCEPT !.ref = r.ref, !.native = TRUE]
           out == NativeBuildFilterExpr(q, f)
       IN /\ (r.ref = NoReference \/ guarded)
          /\ log' = Append(log, [Event("native_build_filter", q, r.ref)
                                     EXCEPT !.path = f.path])
          /\ IF out # "ok" THEN RaiseFrom(g, out)
             ELSE IF f.rhs = <<>> THEN ReturnFrom(g)
             ELSE /\ ret' = ret
                  /\ CallFrom([g EXCEPT !.pc = "applied"],
                              Frame("resolve_ref", q, f.rhs))
    /\ UNCHANGED <<queries, sets, stacks, ops, compiler, raw, utils>>

\* The frame of (_)add_q over the conditions of a Q object.
AddQFrame(q, leaves) ==
    [Frame("add_q", q, <<>>) EXCEPT !.todo = leaves, !.leaves = leaves]

\* A property that asks for its annotation whatever its flag says.
RequiresAnnotationAlways(ref) == TRUE

\* A property that never asks for its annotation.
RequiresAnnotationNever(ref) == FALSE

\* query.py 307: property_ref.property.filter_requires_annotation
RequiresAnnotation(ref) == Property[ref.property].filter_requires_annotation

\* A build_filter that records the reference as annotated before it calls
\* get_filter.
BuildFilterPropertyAnnotatesFirst ==
    /\ At("build_filter", "start")
    /\ LET f == Top
           q == f.q
           r == PropertyOfFilter(queries[q].model, f)
           g == [f EXCEPT !.ref = r.ref, !.pc = "applied"]
           out == GetFilterOutcome(r.ref, r.lookups)
           q_obj == GetFilterLeaves(r.ref, r.lookups)
       IN /\ r.ref # NoReference
          /\ ~(stacks[queries[q].stack_id] # <<>>
                /\ stacks[queries[q].stack_id][Len(stacks[queries[q].stack_id])] = r.ref)
          /\ log' = Append(log, Event("get_filter", q, r.ref))
          /\ IF out # "ok"
             THEN /\ RaiseFrom(g, out)
                  /\ sets' = IF Property[r.ref.property].filter_requires_annotation
                             THEN [sets EXCEPT ![queries[q].annotations_id] = @ \cup {r.ref}]
                             ELSE sets
             ELSE /\ ret' = ret
                  /\ sets' = sets
                  /\ IF Property[r.ref.property].filter_requires_annotation
                     THEN CallFrom(g, AnnotationFrame(q, r.ref, FALSE, FALSE,
                                                      "add_q", q_obj))
                     ELSE CallFrom(g, [Frame("add_q", q, <<>>) EXCEPT
                                          !.todo = q_obj, !.leaves = q_obj])
    /\ UNCHANGED <<queries, stacks, ops, compiler, raw, utils>>

\* query.py 302-319: get_filter, then the Q object is applied, inside the
\* annotation context when the property asks for its annotation.
BuildFilterProperty ==
    /\ At("build_filter", "start")
    /\ LET f == Top
           q == f.q
           r == PropertyOfFilter(queries[q].model, f)
           guarded == TopOfStack(q, r.ref)
           g == [f EXCEPT !.ref = r.ref, !.pc = "applied"]
           out == GetFilterOutcome(r.ref, r.lookups)
           q_obj == GetFilterLeaves(r.ref, r.lookups)
           full_group_by == ANNOTATION_TO_AGGREGATE_ATTRIBUTES_MAP
       IN /\ r.ref # NoReference
          /\ ~guarded
          /\ log' = Append(log, Event("get_filter", q, r.ref))
          /\ IF out # "ok" THEN RaiseFrom(g, out)
             ELSE /\ ret' = ret
                  /\ IF RequiresAnnotation(r.ref)
                     THEN CallFrom(g, [AnnotationFrame(q, r.ref, full_group_by, FALSE,
                                                       "add_q", q_obj)
                                          EXCEPT !.rhs = GetFilterValue(r.ref, f.rhs)])
                     ELSE CallFrom(g, [AddQFrame(q, q_obj)
                                          EXCEPT !.rhs = GetFilterValue(r.ref, f.rhs)])
    /\ UNCHANGED <<queries, sets, stacks, ops, compiler, raw, utils>>

\* query.py 319: the value of the add_q call is returned.
BuildFilterReturn ==
    /\ At("build_filter", "applied")
    /\ ReturnFrom(Top)
    /\ UNCHANGED <<queries, sets, stacks, log, ops, compiler, raw, utils>>

\* The framework's _add_q: build_filter for the next condition of the Q object.
AddQChild ==
    /\ At("add_q", "start")
    /\ Top.todo # <<>>
    /\ CallFrom([Top EXCEPT !.todo = Tail(@)],
                [Frame("build_filter", Top.q, Head(Top.todo))
                    EXCEPT !.rhs = Top.rhs])
    /\ UNCHANGED <<queries, sets, stacks, log, ret, ops, compiler, raw, utils>>

AddQReturn ==
    /\ At("add_q", "start")
    /\ Top.todo = <<>>
    /\ ReturnFrom(Top)
    /\ UNCHANGED <<queries, sets, stacks, log, ops, compiler, raw, utils>>

\* ------------------------------------- _add_queryable_property_annotation
\* A check that looks at the top of the stack only.
CircularDependencyTopOnly(q, ref) == Stack(q) # <<>> /\ Last(Stack(q)) = ref

\* query.py 141: the reference is already somewhere in the stack.
CircularDependency(q, ref) == Contains(Stack(q), ref)

\* A snapshot that takes a mask of None for an empty mask.
CurrentMaskNoneAsEmpty(query) == query.annotation_select_mask.names

\* A snapshot that forgets what is selected.
CurrentMaskEmpty(query) == {}

\* query.py 146: the names selected when the context is entered.
CurrentMask(query) ==
    IF query.annotation_select_mask.is_none THEN Aliases(query)
    ELSE query.annotation_select_mask.names

\* query.py 141-147: raise on a circular dependency, else remember the
\* current selection and push the reference.
AnnotationEnter ==
    /\ At("_add_queryable_property_annotation", "enter")
    /\ LET f == Top
           q == f.q
       IN IF CircularDependency(q, f.ref)
          THEN /\ RaiseFrom(f, "CircularDependency")
               /\ stacks' = stacks
          ELSE /\ stacks' = [stacks EXCEPT ![queries[q].stack_id] = Append(@, f.ref)]
               /\ frames' = WithTop([f EXCEPT !.pc = "try", !.pushed = TRUE,
                                               !.mask = CurrentMask(queries[q])])
               /\ UNCHANGED <<exc, ret>>
    /\ UNCHANGED <<queries, sets, log, ops, compiler, raw, utils>>

\* A context that builds the annotation whether or not there is one.
NotYetAnnotatedAlways(q, ref) == TRUE

\* query.py 149: the reference has no annotation in this query yet.
NotYetAnnotated(q, ref) == ref \notin Annotated(q)

\* A context that records the reference before it calls get_annotation.
AnnotationBuildRecordsFirst ==
    /\ At("_add_queryable_property_annotation", "try")
    /\ Top.ref \notin sets[queries[Top.q].annotations_id]
    /\ LET f == Top
           d == Property[f.ref.property]
       IN /\ sets' = [sets EXCEPT ![queries[f.q].annotations_id] = @ \cup {f.ref}]
          /\ IF ~d.has_annotation
             THEN /\ RaiseFrom(f, "NoAnnotater")
                  /\ log' = Append(log, Event("get_annotation", f.q, f.ref))
             ELSE /\ frames' = WithTop([f EXCEPT !.pc = "add_annotation",
                                                  !.todo = d.annotation_refs])
                  /\ log' = log \o << Event("get_annotation", f.q, f.ref),
                                      Event("add_annotation", f.q, f.ref) >>
                  /\ UNCHANGED <<exc, ret>>
    /\ UNCHANGED <<queries, stacks, ops, compiler, raw, utils>>

\* query.py 149-150: get_annotation is called and add_annotation begins to
\* resolve the names the expression refers to.
AnnotationBuild ==
    /\ At("_add_queryable_property_annotation", "try")
    /\ NotYetAnnotated(Top.q, Top.ref)
    /\ LET f == Top
           d == Property[f.ref.property]
       IN IF ~d.has_annotation
          THEN /\ RaiseFrom(f, "NoAnnotater")
               /\ log' = Append(log, Event("get_annotation", f.q, f.ref))
          ELSE /\ frames' = WithTop([f EXCEPT !.pc = "add_annotation",
                                               !.todo = d.annotation_refs])
               /\ log' = log \o << Event("get_annotation", f.q, f.ref),
                                   Event("add_annotation", f.q, f.ref) >>
               /\ UNCHANGED <<exc, ret>>
    /\ UNCHANGED <<queries, sets, stacks, ops, compiler, raw, utils>>

\* A widening that selects the alias alone.
WidenedToAlias(mask, alias) == {alias}

\* query.py 155: annotation_mask.union((annotation_name,))
Widened(mask, alias) == mask \cup {alias}

\* query.py 154-155: already annotated; a selecting call widens the mask.
AnnotationReuse ==
    /\ At("_add_queryable_property_annotation", "try")
    /\ ~NotYetAnnotated(Top.q, Top.ref)
    /\ LET f == Top
           q == f.q
           widened == set_annotation_mask(queries[q], Widened(f.mask, annotation_name(f.ref)))
       IN /\ queries' = IF f.select /\ ~queries[q].annotation_select_mask.is_none
                        THEN [queries EXCEPT ![q] = widened]
                        ELSE queries
          /\ frames' = WithTop([f EXCEPT !.pc = "yield"])
    /\ UNCHANGED <<sets, stacks, exc, log, ret, ops, compiler, raw, utils>>

\* The framework's add_annotation resolving the next name of the expression
\* through resolve_ref.
AddAnnotationResolve ==
    /\ At("_add_queryable_property_annotation", "add_annotation")
    /\ Top.todo # <<>>
    /\ CallFrom([Top EXCEPT !.todo = Tail(@)],
                Frame("resolve_ref", Top.q, Head(Top.todo)))
    /\ UNCHANGED <<queries, sets, stacks, log, ret, ops, compiler, raw, utils>>

\* The framework's add_annotation once the expression is resolved: the alias
\* joins the mask (if there is one) and the annotation is stored.
add_annotation(query, annotation, alias) ==
    LET masked == append_annotation_mask(query, {alias})
        count == IF alias \in DOMAIN query.registrations
                 THEN query.registrations[alias] ELSE 0
    IN [masked EXCEPT
          !.annotations = PutAnnotation(@, alias, annotation),
          !.registrations = PutAnnotation(@, alias, count + 1)]

\* A context that leaves the mask as add_annotation made it, whether it was
\* asked to select or not.
AnnotationRegisterSelects ==
    /\ At("_add_queryable_property_annotation", "add_annotation")
    /\ Top.todo = <<>>
    /\ LET f == Top
           q == f.q
           added == add_annotation(queries[q], AnnotationOf(f.ref), annotation_name(f.ref))
       IN /\ queries' = [queries EXCEPT ![q] = added]
          /\ sets' = [sets EXCEPT ![queries[q].annotations_id] = @ \cup {f.ref}]
          /\ frames' = WithTop([f EXCEPT !.pc = "yield"])
    /\ UNCHANGED <<stacks, exc, log, ret, ops, compiler, raw, utils>>

\* query.py 150-153: the annotation is stored under the alias, the mask is
\* put back for a non-selecting call, and the reference is recorded.
AnnotationRegister ==
    /\ At("_add_queryable_property_annotation", "add_annotation")
    /\ Top.todo = <<>>
    /\ LET f == Top
           q == f.q
           added == add_annotation(queries[q], AnnotationOf(f.ref), annotation_name(f.ref))
           masked == IF f.select THEN added ELSE set_annotation_mask(added, f.mask)
       IN /\ queries' = [queries EXCEPT ![q] = masked]
          /\ sets' = [sets EXCEPT ![queries[q].annotations_id] = @ \cup {f.ref}]
          /\ frames' = WithTop([f EXCEPT !.pc = "yield"])
    /\ UNCHANGED <<stacks, exc, log, ret, ops, compiler, raw, utils>>

\* query.py 156-157: the stored annotation is read and the body of the
\* with-statement runs while the reference is on the stack.
AnnotationYield ==
    /\ At("_add_queryable_property_annotation", "yield")
    /\ LET f == Top
           q == f.q
           alias == annotation_name(f.ref)
       IN IF alias \notin Aliases(queries[q])
          THEN RaiseFrom(f, "KeyError")
          ELSE LET g == [f EXCEPT !.pc = "exit",
                                  !.annotation = queries[q].annotations[alias]]
               IN /\ ret' = ret
                  /\ IF f.body = "add_q"
                     THEN CallFrom(g, [AddQFrame(q, f.leaves) EXCEPT !.rhs = f.rhs])
                     ELSE /\ frames' = WithTop(g)
                          /\ exc' = "none"
    /\ UNCHANGED <<queries, sets, stacks, log, ops, compiler, raw, utils>>

\* list.pop()
Pop(stack) == Front(stack)

\* A GROUP BY setup that asks for all columns whenever there is an aggregate.
GroupByAfterAlwaysFull(query, annotation, full_group_by) ==
    IF ~contains_aggregate(annotation) THEN query.group_by ELSE "True"

\* query.py 163-174: the GROUP BY setup for an aggregate annotation: True for
\* a full GROUP BY, else what set_group_by computes from the selected columns.
GroupByAfter(query, annotation, full_group_by) ==
    IF ~contains_aggregate(annotation) THEN query.group_by
    ELSE IF full_group_by /\ ~ANNOTATION_TO_AGGREGATE_ATTRIBUTES_MAP THEN "True"
    ELSE "Tuple"

\* query.py 158-159, normal exit: the finally clause pops the reference.
AnnotationExit ==
    /\ At("_add_queryable_property_annotation", "exit")
    /\ stacks' = [stacks EXCEPT ![queries[Top.q].stack_id] = Pop(@)]
    /\ frames' = WithTop([Top EXCEPT !.pc = "group_by", !.pushed = FALSE])
    /\ UNCHANGED <<queries, sets, exc, log, ret, ops, compiler, raw, utils>>

\* query.py 161-174: behind the finally clause, the GROUP BY setup; then the
\* context is left.
AnnotationGroupBy ==
    /\ At("_add_queryable_property_annotation", "group_by")
    /\ LET f == Top
           q == f.q
       IN /\ queries' = [queries EXCEPT ![q].group_by =
                            GroupByAfter(queries[q], f.annotation, f.full_group_by)]
          /\ ReturnFrom([f EXCEPT !.value = AnnotationValue(f.annotation)])
    /\ UNCHANGED <<sets, stacks, log, ops, compiler, raw, utils>>

\* A context that leaves the stack as it is when an exception passes.
FinallyKeep(stack) == stack

\* The stack after the finally clause of a context that has pushed.
Finally(stack) == Pop(stack)

\* An exit by exception that records the reference as annotated.
AnnotationFinallyRecords ==
    /\ exc # "none"
    /\ frames # <<>>
    /\ Top.op = "_add_queryable_property_annotation"
    /\ Top.pushed
    /\ stacks' = [stacks EXCEPT ![queries[Top.q].stack_id] = Front(@)]
    /\ sets' = [sets EXCEPT ![queries[Top.q].annotations_id] = @ \cup {Top.ref}]
    /\ frames' = Front(frames)
    /\ ret' = Ended(Top, exc)
    /\ exc' = IF Len(frames) = 1 THEN "none" ELSE exc
    /\ UNCHANGED <<queries, log, ops, compiler, raw, utils>>

\* query.py 158-159, exit by exception: pop, and the exception goes on.
AnnotationFinally ==
    /\ exc # "none"
    /\ frames # <<>>
    /\ Top.op = "_add_queryable_property_annotation"
    /\ Top.pushed
    /\ stacks' = [stacks EXCEPT ![queries[Top.q].stack_id] = Finally(@)]
    /\ frames' = Front(frames)
    /\ ret' = Ended(Top, exc)
    /\ exc' = IF Len(frames) = 1 THEN "none" ELSE exc
    /\ UNCHANGED <<queries, sets, log, ops, compiler, raw, utils>>

\* An exception leaves a frame that has nothing to clean up.
Propagate ==
    /\ exc # "none"
    /\ frames # <<>>
    /\ ~(Top.op = "_add_queryable_property_annotation" /\ Top.pushed)
    /\ frames' = Front(frames)
    /\ ret' = Ended(Top, exc)
    /\ exc' = IF Len(frames) = 1 THEN "none" ELSE exc
    /\ UNCHANGED <<queries, sets, stacks, log, ops, compiler, raw, utils>>

\* ------------------------------------------------------------- resolve_ref
\* A name that is resolved as it is, whatever is on the stack.
StackUnprefixed(q, path) == path

\* query.py 382-384: the name, behind the relation path of the top of the stack.
StackPrefixed(q, path) ==
    IF Stack(q) # <<>> THEN Last(Stack(q)).relation_path \o path ELSE path

\* query.py 378-394 with _auto_annotate (193-195): the name is no property,
\* the framework's resolve_ref decides.
ResolveRefNative ==
    /\ At("resolve_ref", "start")
    /\ LET f == Top
           q == f.q
           r == resolve_queryable_property(queries[q].model, StackPrefixed(q, f.path))
           g == [f EXCEPT !.native = TRUE, !.value = NativeValue(PathStr(f.path))]
           out == NativeResolveRef(q, f.path)
       IN /\ r.ref = NoReference
          /\ log' = Append(log, [Event("native_resolve_ref", q, r.ref)
                                     EXCEPT !.path = f.path,
                                            !.args = << f.summarize >>])
          /\ IF out = "ok" THEN ReturnFrom(g) ELSE RaiseFrom(g, out)
    /\ UNCHANGED <<queries, sets, stacks, ops, compiler, raw, utils>>

\* query.py 385 with _auto_annotate (196-199): the name is a property, which
\* is annotated without being selected.
ResolveRefProperty ==
    /\ At("resolve_ref", "start")
    /\ LET f == Top
           q == f.q
           r == resolve_queryable_property(queries[q].model, StackPrefixed(q, f.path))
           g == [f EXCEPT !.ref = r.ref, !.pc = "annotated"]
       IN /\ r.ref # NoReference
          /\ CallFrom(g, AnnotationFrame(q, r.ref, ValuesQuerySet, FALSE, "return", <<>>))
    /\ UNCHANGED <<queries, sets, stacks, log, ret, ops, compiler, raw, utils>>

\* A result that is the annotation whatever summarize says.
ResolveRefValueRaw(name, summarize, property_annotation) == property_annotation

\* query.py 387-392: a Ref to the annotation under the given name for an
\* outer (summarizing) query, else the annotation.
ResolveRefValue(name, summarize, property_annotation) ==
    IF summarize THEN Ref(name, property_annotation.annotation)
    ELSE property_annotation

\* query.py 386-392: _auto_annotate has returned the annotation; it, or a Ref
\* to it, is returned.
ResolveRefReturn ==
    /\ At("resolve_ref", "annotated")
    /\ ReturnFrom([Top EXCEPT !.value =
                      ResolveRefValue(PathStr(Top.path), Top.summarize, ret.value)])
    /\ UNCHANGED <<queries, sets, stacks, log, ops, compiler, raw, utils>>

\* ------------------------------------------------------------ add_ordering
\* An ordering argument: a plain string (a name, with '-' and '?' as the
\* caller writes them) or an expression object that refers to a name.
StringItem(name) == [string |-> TRUE, name |-> name]
ExpressionItem(name) == [string |-> FALSE, name |-> name]

\* query.py 258-259: one leading '-' is removed from an ordering name.
StripDescending(item) == IF item # <<>> /\ item[1] = "-" THEN Tail(item) ELSE item

\* A lookup that leaves the '-' where it is.
OrderingNameUnstripped(item) ==
    IF item.string /\ item.name # <<"?">> THEN item.name ELSE <<>>

\* query.py 257-260: the name add_ordering looks up for an item: that of a
\* plain string other than '?', without one leading '-'; none otherwise.
OrderingName(item) ==
    IF item.string /\ item.name # <<"?">> THEN StripDescending(item.name) ELSE <<>>

\* query.py 252-260: the next ordering name is a property: auto-annotate it.
AddOrderingProperty ==
    /\ At("add_ordering", "start")
    /\ Top.todo # <<>>
    /\ LET f == Top
           q == f.q
           item == Head(f.todo)
           r == resolve_queryable_property(queries[q].model, OrderingName(item))
           full_group_by == ANNOTATION_TO_AGGREGATE_ATTRIBUTES_MAP
       IN /\ r.ref # NoReference
          /\ CallFrom([f EXCEPT !.todo = Tail(@), !.ref = r.ref],
                      AnnotationFrame(q, r.ref, full_group_by, FALSE, "return", <<>>))
    /\ UNCHANGED <<queries, sets, stacks, log, ret, ops, compiler, raw, utils>>

\* query.py 252-260: expressions, '?' and names that are no property are
\* passed over.
AddOrderingSkip ==
    /\ At("add_ordering", "start")
    /\ Top.todo # <<>>
    /\ LET f == Top
           item == Head(f.todo)
           r == resolve_queryable_property(queries[f.q].model, OrderingName(item))
       IN /\ r.ref = NoReference
          /\ frames' = WithTop([f EXCEPT !.todo = Tail(@)])
    /\ UNCHANGED <<queries, sets, stacks, exc, log, ret, ops, compiler, raw, utils>>

\* query.py 261: the framework's add_ordering gets the original items; it
\* checks the names of the plain strings and keeps expressions as they are.
AddOrderingNative ==
    /\ At("add_ordering", "start")
    /\ Top.todo = <<>>
    /\ LET f == Top
           bad == \E i \in 1..Len(f.leaves) :
                     /\ f.leaves[i].string
                     /\ f.leaves[i].name # <<"?">>
                     /\ NativeAddOrdering(f.q, StripDescending(f.leaves[i].name)) # "ok"
           g == [f EXCEPT !.native = TRUE]
       IN /\ log' = Append(log, [Event("native_add_ordering", f.q, f.ref)
                                     EXCEPT !.args = f.leaves])
          /\ IF bad THEN RaiseFrom(g, "FieldError") ELSE ReturnFrom(g)
    /\ UNCHANGED <<queries, sets, stacks, ops, compiler, raw, utils>>

\* ----------------------------------------------------------- add_aggregate
\* The alias the caller gives the aggregate.
AggregateAlias == "total"

\* An add_aggregate that stores the aggregate and leaves the mask alone.
WithAggregateUnmasked(query, alias) ==
    [query EXCEPT !.annotations =
        PutAnnotation(@, alias, [kind |-> "aggregate", name |-> alias,
                                 aggregate |-> TRUE])]

\* query.py 233: model = model or self.model
ModelOrDefault(model, query) == IF model = "None" THEN query.model ELSE model

\* aggregates[alias] = aggregate, then query.py 235-236: the alias joins the
\* mask if there is one.
WithAggregate(query, alias) ==
    LET stored == [query EXCEPT !.annotations =
                      PutAnnotation(@, alias, [kind |-> "aggregate", name |-> alias,
                                               aggregate |-> TRUE])]
    IN IF stored.annotation_select_mask.is_none THEN stored
       ELSE set_annotation_mask(stored, stored.annotation_select_mask.names \cup {alias})

\* query.py 220-224 with _auto_annotate: the aggregate's lookup is a property,
\* which is annotated without being selected.
AddAggregateProperty ==
    /\ At("add_aggregate", "start")
    /\ LET f == Top
           q == f.q
           r == resolve_queryable_property(queries[q].model, StackPrefixed(q, f.path))
           full_group_by == ANNOTATION_TO_AGGREGATE_ATTRIBUTES_MAP
       IN /\ r.ref # NoReference
          /\ CallFrom([f EXCEPT !.ref = r.ref, !.pc = "annotated"],
                      AnnotationFrame(q, r.ref, full_group_by, FALSE, "return", <<>>))
    /\ UNCHANGED <<queries, sets, stacks, log, ret, ops, compiler, raw, utils>>

\* query.py 225-229, 235-236: the aggregate is added against the property's
\* annotation, without the framework's add_aggregate.
AddAggregateReturn ==
    /\ At("add_aggregate", "annotated")
    /\ queries' = [queries EXCEPT ![Top.q] = WithAggregate(@, AggregateAlias)]
    /\ log' = Append(log, Event("add_to_query", Top.q, Top.ref))
    /\ ReturnFrom(Top)
    /\ UNCHANGED <<sets, stacks, ops, compiler, raw, utils>>

\* query.py 230-236: the lookup is no property, the framework's add_aggregate
\* decides.
AddAggregateNative ==
    /\ At("add_aggregate", "start")
    /\ LET f == Top
           q == f.q
           r == resolve_queryable_property(queries[q].model, StackPrefixed(q, f.path))
           g == [f EXCEPT !.native = TRUE]
       IN /\ r.ref = NoReference
          /\ log' = Append(log, [Event("native_add_aggregate", q, r.ref)
                                     EXCEPT !.path = f.path,
                                            !.args = << ModelOrDefault(f.model, queries[q]) >>])
          /\ IF names_to_path(q, f.path)
             THEN /\ queries' = [queries EXCEPT ![q] = WithAggregate(@, AggregateAlias)]
                  /\ ReturnFrom(g)
             ELSE /\ queries' = queries
                  /\ RaiseFrom(g, "FieldError")
    /\ UNCHANGED <<sets, stacks, ops, compiler, raw, utils>>

\* ------------------------------------------------------------ clone / chain
\* The framework's copy as it is: it has the attribute values of the source,
\* so the same set object and the same list object.
PostprocessCloneNot(source, clone, fresh) ==
    [query |-> clone, set |-> {}, stack |-> <<>>]

\* A clone that gets a new set, and a new list with the source's content.
PostprocessCloneKeepStack(source, clone, fresh) ==
    [query |-> init_injected_attrs(clone, fresh, fresh),
     set |-> sets[source.annotations_id],
     stack |-> stacks[source.stack_id]]

\* query.py 201-214, _postprocess_clone: the mixin is injected into the clone
\* (utils.py 109-110, which initialises the injected attributes), the
\* attributes are initialised again and the annotated references copied over.
\* `fresh` is the identity of the clone's new set and list objects.
PostprocessClone(source, clone, fresh) ==
    LET injected == init_injected_attrs(clone, fresh, fresh)
        again == init_injected_attrs(injected, fresh, fresh)
    IN [query |-> again,
        set |-> {} \cup sets[source.annotations_id],
        stack |-> <<>>]

\* query.py 405-415, chain / clone: the framework copies the query (the copy
\* shares the attribute values of the original, its annotations and mask are
\* copied), then _postprocess_clone.  This is the method the framework copies
\* querysets with (QUERY_CHAIN_METHOD_NAME); on a framework that has both
\* methods the other one returns the framework's copy as it is.  A caller clones an idle query; a
\* property's get_annotation may clone the query it is asked to annotate,
\* while its reference is on the stack.
Chain(source) ==
    /\ \/ Idle /\ ops < MaxOps
       \/ /\ Running
          /\ Top.op = "_add_queryable_property_annotation"
          /\ Top.q = source
          /\ Top.pc = "try"
    /\ Len(queries) < MaxQueries
    /\ LET fresh == Len(sets) + 1
           obj == queries[source]
           post == PostprocessClone(queries[source], obj, fresh)
       IN /\ queries' = Append(queries, post.query)
          /\ sets' = Append(sets, post.set)
          /\ stacks' = Append(stacks, post.stack)
          /\ ret' = [NoCall EXCEPT !.op = "chain", !.q = source,
                                   !.result = "ok", !.pre = Snapshot(source),
                                   !.depth = Len(frames),
                                   !.clone = Len(queries) + 1]
    /\ ops' = IF Idle THEN ops + 1 ELSE ops
    /\ UNCHANGED <<frames, exc, log, utils>>
    /\ compiler' = NoCompiler
    /\ raw' = NoRawQuery

\* ------------------------------------------------------------ outermost calls
\* An outermost call starts on an idle interpreter.
Begin(frame) ==
    /\ Idle
    /\ ops < MaxOps
    /\ frames' = <<frame>>
    /\ log' = <<>>
    /\ ret' = NoCall
    /\ ops' = ops + 1
    /\ UNCHANGED <<queries, sets, stacks, exc, utils>>
    /\ compiler' = NoCompiler
    /\ raw' = NoRawQuery

\* The manager layer switches the marker on right before it runs a query.
SetMarker(q) ==
    /\ Idle
    /\ ops < MaxOps
    /\ ~queries[q].use_querying_properties_marker
    /\ queries' = [queries EXCEPT ![q].use_querying_properties_marker = TRUE]
    /\ ret' = NoCall
    /\ log' = <<>>
    /\ ops' = ops + 1
    /\ UNCHANGED <<sets, stacks, frames, exc, utils>>
    /\ compiler' = NoCompiler
    /\ raw' = NoRawQuery

\* A get_compiler that reads the flag and leaves it set.
get_compiler_keep_marker(query) ==
    [query |-> query, hook |-> query.use_querying_properties_marker]

\* query.py 341-346: the flag is read and cleared, and the compiler the
\* framework returns gets the marking hook if the flag was set.
get_compiler(query) ==
    LET use_marker == query.use_querying_properties_marker
    IN [query |-> [query EXCEPT !.use_querying_properties_marker = FALSE],
        hook |-> use_marker]

\* What the get_compiler call right before this one, on the same query,
\* returned: a compiler with the hook, a plain one, or there was none.
CompiledBefore(q) ==
    IF ret.op = "get_compiler" /\ ret.q = q /\ ret.result = "ok"
    THEN IF ret.hook THEN "hook" ELSE "plain"
    ELSE "none"

\* The connection arguments of a get_compiler call: an alias, or neither an
\* alias nor a connection.
Using == {"default", "None"}

\* The framework's get_compiler: it raises ValueError when it is given
\* neither an alias nor a connection.
NativeGetCompiler(using) == IF using = "None" THEN "ValueError" ELSE "ok"

\* A get_compiler that puts the flag back when the framework raises.
FailedCompileRestored(query) == query

\* query.py 341-343: the query when the framework's get_compiler raises: the
\* flag was cleared before the call, and nothing puts it back.
FailedCompile(query) ==
    [query EXCEPT !.use_querying_properties_marker = FALSE]

\* query.py 340-346, get_compiler.  Compiling leaves annotations, set and
\* stack alone, so it is not counted among the calls that MaxOps bounds.
GetCompiler(q) ==
    /\ Idle
    /\ \E using \in Using :
         LET compiled == get_compiler(queries[q])
             out == NativeGetCompiler(using)
         IN IF out = "ok"
            THEN /\ queries' = [queries EXCEPT ![q] = compiled.query]
                 /\ ret' = [NoCall EXCEPT !.op = "get_compiler", !.q = q,
                                          !.result = "ok", !.pre = Snapshot(q),
                                          !.hook = compiled.hook,
                                          !.before = CompiledBefore(q)]
                 /\ compiler' = NewCompiler(q, compiled.hook)
            ELSE /\ queries' = [queries EXCEPT ![q] = FailedCompile(queries[q])]
                 /\ ret' = [NoCall EXCEPT !.op = "get_compiler", !.q = q,
                                          !.result = out, !.pre = Snapshot(q)]
                 /\ compiler' = NoCompiler
    /\ log' = <<>>
    /\ UNCHANGED <<sets, stacks, frames, exc, ops, utils>>
    /\ raw' = NoRawQuery

\* The orders in which the framework may have put the names of `names`.
Orderings(names) ==
    {order \in [1..Cardinality(names) -> names] :
        \A i, j \in 1..Cardinality(names) : order[i] = order[j] => i = j}

\* The number of columns that come before the annotations in a row.
ColumnCount == 2

\* The framework's setup_query: the selected annotations get the positions
\* behind the columns, in the framework's order.
NativeColMaps(query) ==
    {[i \in 1..Len(order) |-> <<order[i], ColumnCount + i - 1>>] :
        order \in Orderings(annotation_select(query))}

\* query.py 62-69: the caller (execute_sql) sets the compiler up.
SetupQuery ==
    /\ Idle
    /\ compiler.hook
    /\ compiler.phase = "new"
    /\ \E native \in NativeColMaps(queries[compiler.q]) :
          compiler' = [compiler EXCEPT !.phase = "set_up",
                                       !.native_col_map = native,
                                       !.annotation_col_map = setup_query(native)]
    /\ UNCHANGED <<queries, sets, stacks, frames, exc, log, ret, ops, raw, utils>>

\* The results the database may return for a query: rows of column values.
NativeResults ==
    {<<>>, << <<"a", "x">> >>, << <<"a", "x">>, <<"b", "y">> >>,
     << <<"b", "y">>, <<"a", "x">> >>, << <<"a", "x">>, <<"a", "x">> >>}

\* query.py 71-72: results_iter starts to iterate the framework's results.
ResultsIter ==
    /\ Idle
    /\ compiler.hook
    /\ compiler.phase = "set_up"
    /\ \E results \in NativeResults :
          compiler' = [compiler EXCEPT !.phase = "iterating",
                                       !.native_rows = results]
    /\ UNCHANGED <<queries, sets, stacks, frames, exc, log, ret, ops, raw, utils>>

\* query.py 72-84: the next row of the framework, marked, is yielded.
ResultsIterYield ==
    /\ Idle
    /\ compiler.phase = "iterating"
    /\ Len(compiler.rows) < Len(compiler.native_rows)
    /\ compiler' = [compiler EXCEPT !.rows =
                       Append(@, MarkedRow(compiler.native_rows[Len(compiler.rows) + 1]))]
    /\ UNCHANGED <<queries, sets, stacks, frames, exc, log, ret, ops, raw, utils>>

\* query.py 72: the framework's iterator is exhausted.
ResultsIterStop ==
    /\ Idle
    /\ compiler.phase = "iterating"
    /\ Len(compiler.rows) = Len(compiler.native_rows)
    /\ compiler' = [compiler EXCEPT !.phase = "done"]
    /\ UNCHANGED <<queries, sets, stacks, frames, exc, log, ret, ops, raw, utils>>

\* A raw query is made: init_injected_attrs (query.py 120) leaves the flag off.
RawQuery ==
    /\ Idle
    /\ ops < MaxOps
    /\ raw' = NewRawQuery
    /\ ops' = ops + 1
    /\ compiler' = NoCompiler
    /\ log' = <<>>
    /\ ret' = NoCall
    /\ UNCHANGED <<queries, sets, stacks, frames, exc, utils>>

\* The manager layer switches the flag of the raw query on or off; nothing
\* in the raw query's own methods resets it.
RawUseMarker ==
    /\ Idle
    /\ raw.phase # "none"
    /\ raw' = [raw EXCEPT !.use_marker = ~@]
    /\ UNCHANGED <<queries, sets, stacks, frames, exc, log, ret, ops, compiler, utils>>

\* query.py 331-338, get_columns.
RawGetColumns ==
    /\ Idle
    /\ raw.phase # "none"
    /\ raw' = [raw EXCEPT !.got_columns = TRUE,
                          !.columns = get_columns(raw.use_marker, RawColumns),
                          !.columns_marker = raw.use_marker]
    /\ UNCHANGED <<queries, sets, stacks, frames, exc, log, ret, ops, compiler, utils>>

\* query.py 107: __iter__ starts to iterate the framework's rows.
RawIter ==
    /\ Idle
    /\ raw.phase = "new"
    /\ \E results \in RawResults :
          raw' = [raw EXCEPT !.phase = "iterating", !.native_rows = results]
    /\ UNCHANGED <<queries, sets, stacks, frames, exc, log, ret, ops, compiler, utils>>

\* query.py 107-110: the next row is yielded, marked if the flag is set now.
RawIterYield ==
    /\ Idle
    /\ raw.phase = "iterating"
    /\ Len(raw.rows) < Len(raw.native_rows)
    /\ raw' = [raw EXCEPT
                  !.rows = Append(@, RawRow(raw.use_marker,
                                            raw.native_rows[Len(raw.rows) + 1])),
                  !.markers = Append(@, raw.use_marker)]
    /\ UNCHANGED <<queries, sets, stacks, frames, exc, log, ret, ops, compiler, utils>>

\* query.py 107: the framework's iterator is exhausted.
RawIterStop ==
    /\ Idle
    /\ raw.phase = "iterating"
    /\ Len(raw.rows) = Len(raw.native_rows)
    /\ raw' = [raw EXCEPT !.phase = "done"]
    /\ UNCHANGED <<queries, sets, stacks, frames, exc, log, ret, ops, compiler, utils>>

\* The names callers (the framework's own methods) resolve to a path.
PathNames(model) ==
    IF model = "Application"
    THEN {<<"name">>, <<"versions", "major">>, <<"version_count">>}
    ELSE {<<"major", "gt">>, <<"application", "name">>, <<"non_existent_field">>}

\* query.py 348-356, names_to_path as a call of its own: the framework's
\* method gets the names, prefixed if the stack is not empty.
NamesToPath(q) ==
    /\ Idle
    /\ ops < MaxOps
    /\ \E names \in PathNames(queries[q].model) :
          /\ log' = << [Event("native_names_to_path", q, NoReference)
                           EXCEPT !.path = NamesPrefixed(q, names)] >>
          /\ ret' = [NoCall EXCEPT !.op = "names_to_path", !.q = q,
                                   !.path = names, !.native = TRUE,
                                   !.result = IF names_to_path(q, names)
                                              THEN "ok" ELSE "FieldError",
                                   !.pre = Snapshot(q)]
    /\ ops' = ops + 1
    /\ compiler' = NoCompiler
    /\ raw' = NoRawQuery
    /\ UNCHANGED <<queries, sets, stacks, frames, exc, utils>>

\* -------------------------------------------------------------- bulk update
\* Keyword arguments are a set of <<name, value>> pairs, one per name; a value
\* is the sequence of the parts of a dotted version string.
\* models.py 46, 62: the properties that implement get_update_kwargs.
HasUpdateKwargs(name) == name \in {"major_minor", "version"}

\* A get_update_kwargs of the full version that leaves the patch part out.
get_update_kwargs_without_patch(name, value) ==
    IF name = "major_minor"
    THEN {<<"major", <<value[1]>> >>, <<"minor", <<value[2]>> >>}
    ELSE {<<"major_minor", SubSeq(value, 1, Len(value) - 1)>>}

\* models.py 57-59: parts = value.split('.'), major and minor are the first
\* two parts; models.py 82-84: parts = value.rsplit('.', 1), major_minor is
\* what is in front of the last dot and patch what is behind it.
get_update_kwargs(name, value) ==
    IF name = "major_minor"
    THEN {<<"major", <<value[1]>> >>, <<"minor", <<value[2]>> >>}
    ELSE {<<"major_minor", SubSeq(value, 1, Len(value) - 1)>>,
          <<"patch", <<value[Len(value)]>> >>}

\* The outcome of resolving keyword arguments: an error or column assignments.
Resolved(columns) == [error |-> "none", columns |-> columns]
Failed(error) == [error |-> error, columns |-> {}]

\* A merge that lets the later assignment of a column win.
MergeLastWins(columns, more) ==
    Resolved({c \in columns : \A m \in more : m[1] # c[1]} \cup more)

\* Two resolved sets of assignments are merged; a column assigned two
\* different values is a conflict.
Merge(columns, more) ==
    IF \E c \in columns, m \in more : c[1] = m[1] /\ c[2] # m[2]
    THEN Failed("QueryablePropertyError")
    ELSE Resolved(columns \cup more)

\* The coordinator of the manager layer: every keyword that names a property
\* is replaced by what its get_update_kwargs returns, resolved in turn, and
\* merged into what is resolved so far; a property without get_update_kwargs
\* is an error.
RECURSIVE build_update_kwargs(_, _, _, _)
build_update_kwargs(model, kwargs, merged, fuel) ==
    IF kwargs = {} THEN Resolved(merged)
    ELSE IF fuel = 0 THEN Failed("RecursionError")
    ELSE LET kwarg == CHOOSE p \in kwargs : TRUE
             name == kwarg[1]
             own == IF ~IsQueryableProperty(model, name) THEN Resolved({kwarg})
                    ELSE IF ~HasUpdateKwargs(name) THEN Failed("QueryablePropertyError")
                    ELSE build_update_kwargs(model, get_update_kwargs(name, kwarg[2]),
                                             {}, fuel - 1)
             both == IF own.error # "none" THEN own ELSE Merge(merged, own.columns)
         IN IF both.error # "none" THEN both
            ELSE build_update_kwargs(model, kwargs \ {kwarg}, both.columns, fuel)

\* The keyword arguments callers update with: test_queries.py 361-399.
UpdateArgs(model) ==
    IF model = "Application"
    THEN {{<<"name", <<"app">> >>},
          {<<"version_count", <<"3">> >>},
          {<<"name", <<"app">> >>, <<"version_count", <<"3">> >>}}
    ELSE {{<<"major_minor", <<"42", "42">> >>},
          {<<"version", <<"1", "3", "37">> >>},
          {<<"version", <<"1", "3", "37">> >>, <<"major_minor", <<"1", "3">> >>},
          {<<"version", <<"42", "42", "42">> >>, <<"major_minor", <<"42", "42">> >>},
          {<<"major_minor", <<"42", "42">> >>, <<"major", <<"18">> >>},
          {<<"major_minor", <<"1", "2">> >>, <<"version", <<"1", "3", "37">> >>,
           <<"minor", <<"5">> >>},
          {<<"major_minor", <<"1", "3">> >>, <<"major", <<"1">> >>,
           <<"changes", <<"none">> >>},
          {<<"version", <<"1", "3", "37">> >>, <<"patch", <<"38">> >>},
          {<<"major", <<"2">> >>, <<"patch", <<"0">> >>}}

\* queryset.update(**kwargs): the keyword arguments are resolved, and if
\* that succeeds the framework's update is called once with the columns.
Update(q) ==
    /\ Idle
    /\ ops < MaxOps
    /\ \E kwargs \in UpdateArgs(queries[q].model) :
          LET resolved == build_update_kwargs(queries[q].model, kwargs, {}, MaxDepth)
          IN /\ log' = IF resolved.error # "none" THEN <<>>
                       ELSE << [Event("native_update", q, NoReference)
                                   EXCEPT !.columns = resolved.columns] >>
             /\ ret' = [NoCall EXCEPT !.op = "update", !.q = q, !.kwargs = kwargs,
                                      !.native = resolved.error = "none",
                                      !.result = IF resolved.error = "none"
                                                 THEN "ok" ELSE resolved.error,
                                      !.pre = Snapshot(q)]
    /\ ops' = ops + 1
    /\ compiler' = NoCompiler
    /\ raw' = NoRawQuery
    /\ UNCHANGED <<queries, sets, stacks, frames, exc, utils>>

\* A get_aggregation that widens the mask whatever it is.
get_aggregation_always(q) ==
    set_annotation_mask(queries[q],
        queries[q].annotation_select_mask.names
           \cup {annotation_name(ref) : ref \in sets[queries[q].annotations_id]})

\* A get_aggregation that leaves the mask alone.
get_aggregation_unwidened(q) == queries[q]

\* query.py 325-328: with a mask and property annotations, the aliases of all
\* annotated references join the mask.
get_aggregation(q) ==
    LET query == queries[q]
        annotation_names == {annotation_name(ref) : ref \in Annotated(q)}
    IN IF ~query.annotation_select_mask.is_none /\ Annotated(q) # {}
       THEN set_annotation_mask(query,
                query.annotation_select_mask.names \cup annotation_names)
       ELSE query

\* query.py 321-329, get_aggregation: the mask is widened, then the
\* framework's get_aggregation runs on the query.
GetAggregation(q) ==
    /\ Idle
    /\ ops < MaxOps
    /\ LET widened == get_aggregation(q)
       IN /\ queries' = [queries EXCEPT ![q] = widened]
          /\ log' = << [Event("native_get_aggregation", q, NoReference)
                           EXCEPT !.mask = widened.annotation_select_mask] >>
          /\ ret' = [NoCall EXCEPT !.op = "get_aggregation", !.q = q,
                                   !.result = "ok", !.native = TRUE,
                                   !.value = NativeValue(""),
                                   !.pre = Snapshot(q)]
    /\ ops' = ops + 1
    /\ UNCHANGED <<sets, stacks, frames, exc, utils>>
    /\ compiler' = NoCompiler
    /\ raw' = NoRawQuery

\* The conditions callers filter by: test_queries.py 52-189 and the
\* self-dependent descriptors, from either model.
FilterPaths(model) ==
    IF model = "Application"
    THEN {<<"version_count">>, <<"version_count", "gt">>, <<"dummy">>,
          <<"lowered_version_changes">>, <<"versions", "version">>,
          <<"versions", "self_ref">>,
          <<"versions", "ping">>, <<"version_count", "bogus">>,
          <<"non_existent_field">>}
    ELSE {<<"version">>, <<"major_minor">>, <<"major_minor", "gt">>,
          <<"application", "version_count">>, <<"base">>, <<"derived">>,
          <<"loop">>, <<"pk">>, <<"strict">>, <<"strict", "gt">>,
          <<"no_filter">>}

\* The names callers order by: test_queries.py 405-467.
OrderingNames(model) ==
    IF model = "Application"
    THEN {<<"version_count">>, <<"-", "version_count">>, <<"versions", "ping">>,
          <<"?">>, <<"non_existent_field">>, <<"-", "-", "version_count">>}
    ELSE {<<"version">>, <<"major_minor">>, <<"derived">>,
          <<"application", "version_count">>, <<"-", "pk">>}

\* The ordering arguments of one order_by call: one plain string, one
\* expression, or two items.
OrderingArgs(model) ==
    {<< StringItem(name) >> : name \in OrderingNames(model)}
    \cup (IF model = "Application"
          THEN {<< ExpressionItem(<<"version_count">>) >>,
                << StringItem(<<"?">>), ExpressionItem(<<"version_count">>) >>,
                << StringItem(<<"-", "name">>), StringItem(<<"-", "version_count">>) >>,
                << StringItem(<<"version_count">>), StringItem(<<"non_existent_field">>) >>}
          ELSE {<< ExpressionItem(<<"version">>) >>,
                << StringItem(<<"-", "version">>), StringItem(<<"derived">>) >>})

\* The names callers refer to in expressions: test_queries.py 287-322.
RefNames(model) ==
    IF model = "Application"
    THEN {<<"version_count">>, <<"lowered_version_changes">>,
          <<"versions", "self_ref">>, <<"name">>, <<"versions", "derived">>}
    ELSE {<<"version">>, <<"derived">>, <<"major">>, <<"broken">>}

\* The properties callers select: test_queries.py 258-355.
SelectNames(model) ==
    IF model = "Application"
    THEN {"version_count", "lowered_version_changes"}
    ELSE {"version", "base", "derived", "major_minor"}

\* The lookups callers aggregate over.
AggregateLookups(model) ==
    IF model = "Application"
    THEN {<<"version_count">>, <<"versions">>}
    ELSE {<<"derived">>, <<"non_existent_field">>}

\* Filter expressions that are no (path, value) pair: something that cannot
\* be unpacked at all, and a sequence of three items whose first is a name.
InvalidExpressions(model) ==
    {[unpack |-> "TypeError", items |-> <<>>],
     [unpack |-> "ValueError",
      items |-> << IF model = "Application" THEN <<"version_count">>
                   ELSE <<"version">> >>]}

\* Filter expressions whose value is an F() expression: the path of the
\* condition and the name the value refers to.
FExpressions(model) ==
    IF model = "Application"
    THEN {[path |-> <<"version_count">>, rhs |-> <<"version_count">>],
          [path |-> <<"name">>, rhs |-> <<"version_count">>]}
    ELSE {[path |-> <<"changes_or_default">>, rhs |-> <<"changes_or_default">>]}

\* queryset.filter(path=value) -> query.build_filter((path, value)) with a
\* plain value or with F(name), and query.build_filter(expression) with an
\* expression that is no pair.
Filter(q) ==
    \/ \E path \in FilterPaths(queries[q].model) :
           Begin(Frame("build_filter", q, path))
    \/ \E expr \in FExpressions(queries[q].model) :
           Begin([Frame("build_filter", q, expr.path) EXCEPT !.rhs = expr.rhs])
    \/ \E expr \in InvalidExpressions(queries[q].model) :
           Begin([Frame("build_filter", q, <<>>) EXCEPT
                     !.unpack = expr.unpack, !.items = expr.items])

\* queryset.order_by(*ordering) -> query.add_ordering(*ordering)
OrderBy(q) ==
    \E ordering \in OrderingArgs(queries[q].model) :
        Begin([Frame("add_ordering", q, <<>>) EXCEPT
                  !.todo = ordering, !.leaves = ordering])

\* queryset.annotate(alias=F(name)) -> query.resolve_ref(name), and
\* queryset.aggregate(alias=Sum(name)), where the outer query resolves with
\* summarize=True.
ResolveRef(q) ==
    \E path \in RefNames(queries[q].model), summarize \in BOOLEAN :
        Begin([Frame("resolve_ref", q, path) EXCEPT !.summarize = summarize])

\* query.add_aggregate(Aggregate(lookup), alias=AggregateAlias)
AddAggregate(q) ==
    \E lookup \in AggregateLookups(queries[q].model),
       model \in {"None", queries[q].model} :
        Begin([Frame("add_aggregate", q, lookup) EXCEPT !.model = model])

\* queryset.select_properties(name): the manager layer annotates the property
\* of the query's model as selected, with an empty with-body.
SelectProperties(q) ==
    \E name \in SelectNames(queries[q].model) :
        Begin(AnnotationFrame(q, Reference(name, queries[q].model, <<>>),
                              TRUE, TRUE, "pass", <<>>))

\* One step of a call on a query: an outermost call starts, or the running
\* call takes its next step.
Next ==
    \/ \E q \in QueryIds : Filter(q)
    \/ \E q \in QueryIds : OrderBy(q)
    \/ \E q \in QueryIds : ResolveRef(q)
    \/ \E q \in QueryIds : AddAggregate(q)
    \/ \E q \in QueryIds : SelectProperties(q)
    \/ \E q \in QueryIds : SetMarker(q)
    \/ \E q \in QueryIds : GetCompiler(q)
    \/ \E q \in QueryIds : GetAggregation(q)
    \/ \E q \in QueryIds : NamesToPath(q)
    \/ \E q \in QueryIds : Update(q)
    \/ RawQuery
    \/ RawUseMarker
    \/ RawGetColumns
    \/ RawIter
    \/ RawIterYield
    \/ RawIterStop
    \/ SetupQuery
    \/ ResultsIter
    \/ ResultsIterYield
    \/ ResultsIterStop
    \/ BuildFilterNative
    \/ BuildFilterProperty
    \/ BuildFilterReturn
    \/ AddQChild
    \/ AddQReturn
    \/ AnnotationEnter
    \/ AnnotationBuild
    \/ AnnotationReuse
    \/ AddAnnotationResolve
    \/ AnnotationRegister
    \/ AnnotationYield
    \/ AnnotationExit
    \/ AnnotationGroupBy
    \/ AnnotationFinally
    \/ Propagate
    \/ ResolveRefNative
    \/ ResolveRefProperty
    \/ ResolveRefReturn
    \/ AddOrderingProperty
    \/ AddOrderingSkip
    \/ AddOrderingNative
    \/ AddAggregateProperty
    \/ AddAggregateReturn
    \/ AddAggregateNative

\* Calls on one query object.
Spec == Init /\ [][Next]_vars

\* Threads that call mix_with_class; each statement of a call is a step, and
\* the interpreter may switch threads between any two.
MixNext ==
    \/ \E t \in Threads : MixWithClass(t)
    \/ \E t \in Threads : MixGet(t)
    \/ \E t \in Threads : MixCreate(t)
    \/ \E t \in Threads : MixStore(t)
    \/ \E t \in Threads : MixReturn(t)

MixSpec == Init /\ [][MixNext]_vars

\* Objects of mixed classes are made, pickled and unpickled by one thread.
PickleNext ==
    \/ InjectIntoObject
    \/ Reduce
    \/ NewProcess
    \/ UnpickleInjectedObject
    \/ RestoreState

PickleSpec == Init /\ [][PickleNext]_vars

\* Trees are built and handed to modify_tree_node.
TreeNext ==
    \/ TreeNode
    \/ TreeAddLeaf
    \/ TreeAddNode
    \/ TreeAddSame
    \/ ModifyTreeNode

TreeSpec == Init /\ [][TreeNext]_vars

\* Admins are asked for their list filters.
AdminNext ==
    \/ GetListFilter
    \/ ListFilterItem
    \/ ListFilterReturn

AdminSpec == Init /\ [][AdminNext]_vars

\* Calls on a query and on the clones made of it.
CloneNext ==
    \/ Next
    \/ \E q \in QueryIds : Chain(q)

\* The query that gets cloned is a query on Application: all the properties
\* are within its reach, its own and those of its versions.
CloneInit == Init /\ queries[1].model = "Application"

CloneSpec == CloneInit /\ [][CloneNext]_vars

\* The one thread runs every call it has started to its end.
LiveSpec == Spec /\ WF_vars(Next)

\* ================================================================ properties
AnnotationOp == "_add_queryable_property_annotation"

\* The context is entered for a reference that is already in the stack.
EntersWithReferenceInStack ==
    /\ At(AnnotationOp, "enter")
    /\ Contains(Stack(Top.q), Top.ref)

NoDuplicatesInStack ==
    \A q \in QueryIds : \A i, j \in 1..Len(Stack(q)) :
        Stack(q)[i] = Stack(q)[j] => i = j

\* C1: a reference occurs at most once in a query's stack at any time, and
\* entering the annotation context for a reference that is anywhere in the
\* stack raises the circular-dependency error and leaves the stack as it is.
C1_StackHasNoDuplicates ==
    /\ []NoDuplicatesInStack
    /\ [][EntersWithReferenceInStack =>
            /\ exc' = "CircularDependency"
            /\ stacks' = stacks
            /\ ~Top'.pushed]_vars

\* The circular-dependency error was raised for a reference that lies below
\* the top of the stack, and the stack has no second copy of it.
C1_Witness ==
    /\ exc = "CircularDependency"
    /\ frames # <<>>
    /\ Top.op = AnnotationOp
    /\ ~Top.pushed
    /\ Contains(Stack(Top.q), Top.ref)
    /\ Last(Stack(Top.q)) # Top.ref

\* The references of the annotation contexts of query q that are between
\* their push and their pop, outermost first.
PushedRefs(q) ==
    LET open == SelectSeq(frames, LAMBDA f : f.op = AnnotationOp /\ f.q = q /\ f.pushed)
    IN [i \in 1..Len(open) |-> open[i].ref]

\* C2: every annotation context pops the reference it pushed however it is
\* left, so the stack always holds exactly the references of the contexts
\* still open, and once an outermost call has returned or raised the stack is
\* what it was before the call: empty.
C2_StackRestored ==
    /\ \A q \in QueryIds : Stack(q) = PushedRefs(q)
    /\ Idle => \A q \in QueryIds : Stack(q) = <<>>
    /\ (Idle /\ ret.op \notin {"none", "chain", "get_compiler"})
          => Stack(ret.q) = ret.pre.stack

\* An outermost filter call has raised from inside the with-body of a context
\* that had pushed its reference.
C2_Witness ==
    /\ Idle
    /\ ret.op = "build_filter"
    /\ ret.depth = 0
    /\ ret.result = "FieldError"
    /\ ret.ref # NoReference
    /\ Property[ret.ref.property].filter_requires_annotation
    /\ ret.ref \in Annotated(ret.q)
    /\ Stack(ret.q) = <<>>

\* How often add_annotation has stored something under the alias in `query`.
Registrations(query, alias) ==
    IF alias \in DOMAIN query.registrations THEN query.registrations[alias] ELSE 0

\* C3: get_annotation and add_annotation are called for a reference only
\* while the query has no annotation for it, so however often and by whatever
\* route a reference is annotated, its annotation is built and stored once,
\* under the one alias that is the string of its full path.
C3_AnnotatedOnce ==
    /\ \A i \in 1..Len(log) :
          log[i].call \in {"get_annotation", "add_annotation"} => ~log[i].annotated
    /\ \A q \in QueryIds :
          /\ \A ref \in Annotated(q) :
                /\ annotation_name(ref) \in Aliases(queries[q])
                /\ Registrations(queries[q], annotation_name(ref)) = 1
          /\ \A alias \in Aliases(queries[q]) :
                Registrations(queries[q], alias) <= 1

\* A context was entered for a reference the query had annotated before, and
\* went on to its body with the one annotation stored under the alias.
C3_Witness ==
    /\ At(AnnotationOp, "yield")
    /\ Top.ref \in Top.pre.annotated
    /\ Registrations(queries[Top.q], annotation_name(Top.ref)) = 1
    /\ ~(\E i \in 1..Len(log) : log[i].call = "get_annotation" /\ log[i].ref = Top.ref)

\* A step that creates a query: the clone is the last query, ret' names the
\* source.
ClonePoint == Len(queries') = Len(queries) + 1
TheClone == Len(queries')
TheSource == ret'.q

AnnotatedNext(q) == sets'[queries'[q].annotations_id]
StackNext(q) == stacks'[queries'[q].stack_id]

\* C4: the clone gets a set object and a list object no query had before; the
\* set has the content of the source's set at that moment, the list is empty
\* whatever the source's stack holds; the source keeps its objects, with
\* their content.
C4_CloneCopiesSetAndResetsStack ==
    [][ClonePoint =>
          /\ TheSource \in QueryIds
          /\ \A q \in QueryIds :
                /\ queries'[TheClone].annotations_id # queries[q].annotations_id
                /\ queries'[TheClone].stack_id # queries[q].stack_id
          /\ AnnotatedNext(TheClone) = Annotated(TheSource)
          /\ StackNext(TheClone) = <<>>
          /\ queries'[TheSource].annotations_id = queries[TheSource].annotations_id
          /\ queries'[TheSource].stack_id = queries[TheSource].stack_id
          /\ AnnotatedNext(TheSource) = Annotated(TheSource)
          /\ StackNext(TheSource) = Stack(TheSource)]_vars

\* A query with annotated references was cloned while its stack was not
\* empty: the clone has the references and an empty stack.
C4_Witness ==
    /\ ret.op = "chain"
    /\ ret.clone = Len(queries)
    /\ ret.pre.stack # <<>>
    /\ ret.pre.annotated # {}
    /\ Annotated(ret.clone) = ret.pre.annotated
    /\ Stack(ret.clone) = <<>>
    /\ Stack(ret.q) = ret.pre.stack

ExtensionChanged(q) ==
    \/ AnnotatedNext(q) # Annotated(q)
    \/ StackNext(q) # Stack(q)
    \/ queries'[q].use_querying_properties_marker
          # queries[q].use_querying_properties_marker

FilterReturns ==
    /\ ret' # ret
    /\ ret'.op = "build_filter"
    /\ ret'.result = "ok"
    /\ ret'.ref # NoReference
    /\ ~ret'.native

\* C7: when build_filter returns for a property with
\* filter_requires_annotation that the query had not annotated, the reference
\* is in the set, its alias is in the annotations and not selected, and the
\* selected aliases are those selected before the call.
C7_RequiredAnnotationNotSelected ==
    [][(/\ FilterReturns
        /\ Property[ret'.ref.property].filter_requires_annotation
        /\ ret'.ref \notin ret'.pre.annotated)
       => /\ ret'.ref \in AnnotatedNext(ret'.q)
          /\ annotation_name(ret'.ref) \in Aliases(queries'[ret'.q])
          /\ annotation_name(ret'.ref) \notin annotation_select(queries'[ret'.q])
          /\ annotation_select(queries'[ret'.q]) = ret'.pre.selected]_vars

\* An outermost filter on such a property has returned on a query that had
\* a selected annotation beforehand.
C7_Witness ==
    /\ Idle
    /\ ret.op = "build_filter"
    /\ ret.depth = 0
    /\ ret.result = "ok"
    /\ ret.ref # NoReference
    /\ Property[ret.ref.property].filter_requires_annotation
    /\ ret.ref \notin ret.pre.annotated
    /\ ret.ref \in Annotated(ret.q)
    /\ ret.pre.selected # {}
    /\ annotation_select(queries[ret.q]) = ret.pre.selected

\* get_annotation was called for `ref` during the current outermost call,
\* `directly` when no other reference was on the stack below it.
Built(ref, directly) ==
    \E i \in 1..Len(log) :
        /\ log[i].call = "get_annotation"
        /\ log[i].ref = ref
        /\ directly => log[i].depth = 1

\* C8 (as the code has it): build_filter on a property without
\* filter_requires_annotation does not annotate the property for the sake of
\* its filter; the property is annotated during the call only inside the
\* annotation of another property that its filter leads to and that refers
\* to it, and otherwise its reference and its alias are as before the call.
C8_NoAnnotationForFilter ==
    /\ []((/\ frames # <<>>
            /\ frames[1].op = "build_filter"
            /\ frames[1].ref # NoReference
            /\ ~Property[frames[1].ref.property].filter_requires_annotation)
           => ~Built(frames[1].ref, TRUE))
    /\ [][(/\ FilterReturns
           /\ ~Property[ret'.ref.property].filter_requires_annotation
           /\ ~Built(ret'.ref, FALSE))
          => /\ (ret'.ref \in AnnotatedNext(ret'.q)) = (ret'.ref \in ret'.pre.annotated)
             /\ (annotation_name(ret'.ref) \in Aliases(queries'[ret'.q]))
                   = (annotation_name(ret'.ref) \in ret'.pre.aliases)]_vars

\* C8 as stated: after build_filter on a property without
\* filter_requires_annotation (not annotated before), the property has no
\* annotation.
C8_NeverAnnotated ==
    [][(/\ FilterReturns
        /\ ~Property[ret'.ref.property].filter_requires_annotation
        /\ ret'.ref \notin ret'.pre.annotated)
       => /\ ret'.ref \notin AnnotatedNext(ret'.q)
          /\ annotation_name(ret'.ref) \notin Aliases(queries'[ret'.q])]_vars

\* A filter across a relation on a property without
\* filter_requires_annotation, whose filter is built from another property's
\* filter, has returned and the property has no annotation.
C8_Witness ==
    /\ Idle
    /\ ret.op = "build_filter"
    /\ ret.depth = 0
    /\ ret.result = "ok"
    /\ ret.ref # NoReference
    /\ ret.ref.relation_path # <<>>
    /\ ~Property[ret.ref.property].filter_requires_annotation
    /\ \E i \in 1..Len(log) : log[i].call = "get_filter" /\ log[i].ref # ret.ref
    /\ ret.ref \notin Annotated(ret.q)
    /\ annotation_name(ret.ref) \notin Aliases(queries[ret.q])

\* The property's own filter condition names the property: the default
\* filter of a property with filter_requires_annotation.
SelfNaming(ref) ==
    /\ ref # NoReference
    /\ Property[ref.property].filter = "default"
    /\ Property[ref.property].filter_requires_annotation

\* How often get_filter was called for `ref` in the current outermost call.
GetFilterCalls(ref) ==
    Cardinality({i \in 1..Len(log) : log[i].call = "get_filter" /\ log[i].ref = ref})

\* build_filter is about to run on a path that resolves to the reference on
\* top of the stack.
GuardedFilter ==
    /\ At("build_filter", "start")
    /\ LET r == resolve_queryable_property(queries[Top.q].model, Top.path)
       IN /\ r.ref # NoReference
          /\ Stack(Top.q) # <<>>
          /\ Last(Stack(Top.q)) = r.ref

\* C9: build_filter on the reference on top of the stack hands the path as it
\* is to the framework's build_filter, without get_filter, annotation or
\* nested call of its own (the framework may resolve an F() value); so an outermost filter on a property with
\* filter_requires_annotation whose filter names the property calls
\* get_filter once, never twice, and comes to its end.
C9_TopOfStackDelegates ==
    /\ [][GuardedFilter =>
            /\ Len(log') = Len(log) + 1
            /\ Last(log').call = "native_build_filter"
            /\ Last(log').path = Top.path
            /\ \/ Len(frames') <= Len(frames)
               \/ /\ Top.rhs # <<>>
                  /\ Last(frames').op = "resolve_ref"
                  /\ Last(frames').path = Top.rhs
            /\ UNCHANGED <<queries, sets, stacks>>]_vars
    /\ []((frames # <<>> /\ frames[1].op = "build_filter" /\ SelfNaming(frames[1].ref))
            => /\ GetFilterCalls(frames[1].ref) = 1
               /\ exc # "RecursionError")
    /\ []((/\ Idle
           /\ ret.op = "build_filter"
           /\ ret.depth = 0
           /\ ret.result = "ok"
           /\ SelfNaming(ret.ref))
          => GetFilterCalls(ret.ref) = 1)
    /\ (frames # <<>> /\ frames[1].op = "build_filter") ~> Idle

\* An outermost filter on such a property has returned after one get_filter
\* call and one delegation of the property's own condition.
C9_Witness ==
    /\ Idle
    /\ ret.op = "build_filter"
    /\ ret.depth = 0
    /\ ret.result = "ok"
    /\ SelfNaming(ret.ref)
    /\ GetFilterCalls(ret.ref) = 1
    /\ \E i \in 1..Len(log) :
          /\ log[i].call = "native_build_filter"
          /\ log[i].ref = ret.ref
          /\ log[i].top

\* The properties a property's annotation refers to, and those the
\* conditions of its own (custom) filter name; the own name of a property
\* with filter_requires_annotation stands for its annotation there.
AnnotationRequires ==
    [p \in PropertyNames |->
        {n \in PropertyNames : \E i \in 1..Len(Property[p].annotation_refs) :
            Contains(Property[p].annotation_refs[i], n)}]
FilterRequires ==
    [p \in PropertyNames |->
        IF Property[p].filter # "custom" THEN {}
        ELSE {n \in PropertyNames : \E i \in 1..Len(Property[p].filter_leaves) :
                 Contains(Property[p].filter_leaves[i], n)}
             \ (IF Property[p].filter_requires_annotation THEN {p} ELSE {})]

\* The properties reached from `from` along `requires`, in at most n more steps.
RECURSIVE Reach(_, _, _)
Reach(requires, from, n) ==
    IF n = 0 THEN from
    ELSE Reach(requires, from \cup UNION {requires[p] : p \in from}, n - 1)

\* The properties whose annotation, or whose filter, requires the property
\* itself, directly or through other properties.
SelfDependent ==
    {p \in PropertyNames :
        \/ p \in Reach(AnnotationRequires, AnnotationRequires[p], Cardinality(PropertyNames))
        \/ p \in Reach(FilterRequires, FilterRequires[p], Cardinality(PropertyNames))}

\* C10: an outermost call for a property that requires itself ends in the
\* circular-dependency error.
C10_SelfDependentEndsInCircularDependency ==
    (/\ Idle
     /\ ret.depth = 0
     /\ ret.op \notin {"none", "chain", "get_compiler"}
     /\ ret.ref # NoReference
     /\ ret.ref.property \in SelfDependent)
    => ret.result = "CircularDependency"

\* The call stack runs full only under a property whose filter requires
\* itself without filter_requires_annotation.
RecursionOnlyFromFilterLoop ==
    exc = "RecursionError" =>
        /\ frames[1].op = "build_filter"
        /\ frames[1].ref # NoReference
        /\ ~Property[frames[1].ref.property].filter_requires_annotation
        /\ frames[1].ref.property
              \in Reach(FilterRequires, FilterRequires[frames[1].ref.property],
                        Cardinality(PropertyNames))

\* build_filter is about to call get_filter for a property that declares
\* filter_requires_annotation.
RequiredFilterStarts ==
    /\ At("build_filter", "start")
    /\ LET r == resolve_queryable_property(queries[Top.q].model, Top.path)
       IN /\ r.ref # NoReference
          /\ ~(Stack(Top.q) # <<>> /\ Last(Stack(Top.q)) = r.ref)
          /\ Property[r.ref.property].filter_requires_annotation

\* The frame below frame i is the annotation context build_filter has entered
\* for the reference of frame i.
ContextOfFilter(i) ==
    /\ frames[i + 1].op = AnnotationOp
    /\ frames[i + 1].ref = frames[i].ref
    /\ frames[i + 1].q = frames[i].q
    /\ ~frames[i + 1].select
    /\ frames[i + 1].body = "add_q"

\* C11 (as the code has it): build_filter for a property with
\* filter_requires_annotation calls get_filter first, in a step that neither
\* annotates nor pushes (so a get_filter that raises leaves the query as it
\* was); then it enters the annotation context, not selecting, and the Q
\* object is applied through add_q only inside that context, when the
\* reference is in the stack, annotated, and selected only if it was before.
C11_GetFilterThenAnnotateThenApply ==
    /\ [][RequiredFilterStarts =>
            /\ Len(log') = Len(log) + 1
            /\ Last(log').call = "get_filter"
            /\ ~Last(log').top
            /\ UNCHANGED <<queries, sets, stacks>>
            /\ exc' # "none" => Len(frames') = Len(frames)]_vars
    /\ [](\A i \in 1..Len(frames) :
             (/\ frames[i].op = "build_filter"
              /\ frames[i].ref # NoReference
              /\ ~frames[i].native
              /\ Property[frames[i].ref.property].filter_requires_annotation
              /\ i < Len(frames))
             => ContextOfFilter(i))
    /\ [](\A i \in 2..Len(frames) :
             (frames[i].op = "add_q" /\ frames[i - 1].op = AnnotationOp)
             => LET c == frames[i - 1]
                    alias == annotation_name(c.ref)
                IN /\ c.pushed
                   /\ Contains(Stack(c.q), c.ref)
                   /\ c.ref \in Annotated(c.q)
                   /\ alias \in Aliases(queries[c.q])
                   /\ (alias \in annotation_select(queries[c.q]))
                         => alias \in c.pre.selected
                   /\ (i = Len(frames) /\ frames[i].pc = "start"
                          /\ frames[i].todo = frames[i].leaves /\ exc = "none")
                         => Last(Stack(c.q)) = c.ref)

\* C11 as stated: when get_filter is invoked for a property with
\* filter_requires_annotation, its annotation is registered and its reference
\* is in the stack.
C11_AnnotatedBeforeGetFilter ==
    \A i \in 1..Len(log) :
        (/\ log[i].call = "get_filter"
         /\ Property[log[i].ref.property].filter_requires_annotation)
        => log[i].annotated /\ log[i].stacked

\* add_q is about to apply the Q object of a property with
\* filter_requires_annotation that the query had not annotated when get_filter
\* was called; the reference is now annotated and on top of the stack.
C11_Witness ==
    /\ At("add_q", "start")
    /\ Len(frames) > 2
    /\ Top.todo = Top.leaves
    /\ frames[Len(frames) - 1].op = AnnotationOp
    /\ LET c == frames[Len(frames) - 1]
       IN /\ Last(Stack(c.q)) = c.ref
          /\ c.ref \in Annotated(c.q)
          /\ Property[c.ref.property].filter = "custom"
          /\ \E k \in 1..Len(log) :
                /\ log[k].call = "get_filter"
                /\ log[k].ref = c.ref
                /\ ~log[k].annotated
                /\ ~log[k].stacked

\* build_filter is about to run on a path that resolves to a property that
\* is not the top of the stack.
PropertyFilterStarts ==
    /\ At("build_filter", "start")
    /\ LET r == resolve_queryable_property(queries[Top.q].model, Top.path)
       IN /\ r.ref # NoReference
          /\ ~(Stack(Top.q) # <<>> /\ Last(Stack(Top.q)) = r.ref)

\* The conditions a filter on `path` comes down to, from the descriptors
\* alone: a condition on a property is replaced by the conditions of the
\* property's filter, except the property's own name under its own filter.
RECURSIVE FilterConditions(_, _, _, _)
RECURSIVE ConditionsOfAll(_, _, _, _)
FilterConditions(model, path, top, fuel) ==
    LET r == resolve_queryable_property(model, path)
    IN IF r.ref = NoReference \/ r.ref = top \/ fuel = 0 THEN << path >>
       ELSE ConditionsOfAll(model, GetFilterLeaves(r.ref, r.lookups),
                            IF Property[r.ref.property].filter_requires_annotation
                            THEN r.ref ELSE top,
                            fuel - 1)
ConditionsOfAll(model, leaves, top, fuel) ==
    IF leaves = <<>> THEN <<>>
    ELSE FilterConditions(model, Head(leaves), top, fuel)
            \o ConditionsOfAll(model, Tail(leaves), top, fuel)

\* The conditions the current outermost call has handed to the framework's
\* build_filter, in order.
NativeConditions ==
    LET native == SelectSeq(log, LAMBDA e : e.call = "native_build_filter")
    IN [i \in 1..Len(native) |-> native[i].path]

\* The build_filter frame that has made the add_q call of frame i.
FilterOfAddQ(i) ==
    IF frames[i - 1].op = "build_filter" THEN frames[i - 1] ELSE frames[i - 2]

\* C12: build_filter on a property that is not the top of the stack calls the
\* property's get_filter whether or not the property is annotated or selected
\* and applies the Q object it returns, so the conditions a filter that has
\* returned has handed to the framework are those the descriptors determine,
\* the same with and without a previous select_properties.
C12_FilterFromGetFilter ==
    /\ [][PropertyFilterStarts =>
            /\ Len(log') = Len(log) + 1
            /\ Last(log').call = "get_filter"
            /\ Last(log').ref
                  = resolve_queryable_property(queries[Top.q].model, Top.path).ref]_vars
    /\ [](\A i \in 2..Len(frames) :
             frames[i].op = "add_q" =>
                LET b == FilterOfAddQ(i)
                    r == resolve_queryable_property(queries[b.q].model, b.path)
                IN /\ b.op = "build_filter"
                   /\ r.ref = b.ref
                   /\ frames[i].leaves = GetFilterLeaves(r.ref, r.lookups))
    /\ []((/\ Idle
           /\ ret.op = "build_filter"
           /\ ret.depth = 0
           /\ ret.result = "ok")
          => NativeConditions
                = FilterConditions(queries[ret.q].model, ret.path, NoReference, MaxDepth))

\* A filter on a property the query had selected before has returned: its
\* get_filter was called although the annotation was there, and the
\* conditions are those of the property's filter.
C12_Witness ==
    /\ Idle
    /\ ret.op = "build_filter"
    /\ ret.depth = 0
    /\ ret.result = "ok"
    /\ ret.ref # NoReference
    /\ ret.ref \in ret.pre.annotated
    /\ annotation_name(ret.ref) \in ret.pre.selected
    /\ Property[ret.ref.property].filter = "custom"
    /\ \E i \in 1..Len(log) :
          log[i].call = "get_filter" /\ log[i].ref = ret.ref /\ log[i].annotated
    /\ NativeConditions # << ret.path >>
    /\ Len(NativeConditions) > 1

\* C13: an alias that is selected in a query stays selected through every
\* step of build_filter, add_ordering and resolve_ref (and of every other
\* operation modelled) on that query or on any other, whichever property the
\* call refers to and whether the alias was selected before or after it was
\* first required; a clone starts with the selection of its source.
C13_SelectionMonotone ==
    /\ [][\A q \in QueryIds :
             annotation_select(queries[q]) \subseteq annotation_select(queries'[q])]_vars
    /\ [][ClonePoint =>
             annotation_select(queries'[TheClone])
                = annotation_select(queries[TheSource])]_vars
    /\ []((Idle /\ ret.op \in {"build_filter", "add_ordering", "resolve_ref"})
            => ret.pre.selected \subseteq annotation_select(queries[ret.q]))

\* A filter, ordering or reference that had to annotate another property has
\* ended on a query with a selected alias, which is still selected; the
\* other property is not.
C13_Witness ==
    /\ Idle
    /\ ret.op \in {"build_filter", "add_ordering", "resolve_ref"}
    /\ ret.depth = 0
    /\ ret.pre.selected # {}
    /\ ret.pre.selected \subseteq annotation_select(queries[ret.q])
    /\ ret.ref \in Annotated(ret.q) \ ret.pre.annotated
    /\ annotation_name(ret.ref) \notin annotation_select(queries[ret.q])

\* The annotation context, entered to select, is about to deal with a
\* reference that is annotated and not selected.
SelectsAnnotated ==
    /\ At(AnnotationOp, "try")
    /\ Top.select
    /\ Top.ref \in Annotated(Top.q)
    /\ annotation_name(Top.ref) \notin annotation_select(queries[Top.q])

\* A step in which a selecting annotation context ends that was entered for a
\* reference that was annotated and not selected.
SelectOfAnnotatedEnds ==
    /\ ret' # ret
    /\ ret'.op = AnnotationOp
    /\ ret'.select
    /\ ret'.ref \in ret'.pre.annotated
    /\ annotation_name(ret'.ref) \in ret'.pre.aliases
    /\ annotation_name(ret'.ref) \notin ret'.pre.selected

\* C14: entered with select=True for a reference that is annotated and not
\* selected, the context adds the alias to the mask and keeps every name that
\* was in it, without calling get_annotation or add_annotation; the call ends
\* normally with the alias selected next to all that was selected before.
C14_SelectWidensMask ==
    /\ [][SelectsAnnotated =>
            /\ ~queries'[Top.q].annotation_select_mask.is_none
            /\ queries'[Top.q].annotation_select_mask.names
                  = queries[Top.q].annotation_select_mask.names
                       \cup {annotation_name(Top.ref)}
            /\ queries'[Top.q].annotations = queries[Top.q].annotations
            /\ queries'[Top.q].registrations = queries[Top.q].registrations
            /\ log' = log
            /\ UNCHANGED <<sets, stacks>>]_vars
    /\ [][SelectOfAnnotatedEnds =>
            /\ ret'.result = "ok"
            /\ annotation_select(queries'[ret'.q])
                  = ret'.pre.selected \cup {annotation_name(ret'.ref)}
            /\ Registrations(queries'[ret'.q], annotation_name(ret'.ref)) = 1
            /\ ~(\E i \in 1..Len(log') :
                    log'[i].call \in {"get_annotation", "add_annotation"})]_vars

\* select_properties has ended for a property the query had annotated without
\* selecting it, next to another alias that was selected; both are selected.
C14_Witness ==
    /\ Idle
    /\ ret.op = AnnotationOp
    /\ ret.select
    /\ ret.result = "ok"
    /\ ret.ref \in ret.pre.annotated
    /\ annotation_name(ret.ref) \notin ret.pre.selected
    /\ ret.pre.selected # {}
    /\ annotation_select(queries[ret.q])
          = ret.pre.selected \cup {annotation_name(ret.ref)}

\* add_ordering has gone through its items and is about to call the
\* framework's add_ordering.
OrderingDelegates == At("add_ordering", "start") /\ Top.todo = <<>>

\* The property a plain-string ordering item other than '?' names once one
\* leading '-' is taken off, or NoReference.
OrderedProperty(model, item) ==
    IF ~item.string \/ item.name = <<"?">> THEN NoReference
    ELSE resolve_queryable_property(
             model, IF item.name[1] = "-" THEN Tail(item.name) ELSE item.name).ref

\* C15: when add_ordering calls the framework's add_ordering, every property
\* named by a plain-string item other than '?' (one leading '-' taken off) is
\* annotated and is selected only if it was selected before; the framework
\* gets the items as the caller gave them; an expression or '?' starts no
\* annotation; and when the call has ended the selection is what it was.
C15_OrderingAnnotatesUnselected ==
    /\ [](OrderingDelegates =>
            \A i \in 1..Len(Top.leaves) :
               LET ref == OrderedProperty(queries[Top.q].model, Top.leaves[i])
               IN ref # NoReference =>
                     /\ ref \in Annotated(Top.q)
                     /\ annotation_name(ref) \in Aliases(queries[Top.q])
                     /\ (annotation_name(ref) \in annotation_select(queries[Top.q]))
                           => annotation_name(ref) \in Top.pre.selected)
    /\ [][OrderingDelegates =>
            /\ Len(log') = Len(log) + 1
            /\ Last(log').call = "native_add_ordering"
            /\ Last(log').args = Top.leaves
            /\ UNCHANGED <<queries, sets, stacks>>]_vars
    /\ [][(frames # <<>> /\ frames' # <<>> /\ ops' = ops
            /\ frames[1].op = "add_ordering")
           => frames'[1].leaves = frames[1].leaves]_vars
    /\ [][(/\ At("add_ordering", "start")
           /\ Top.todo # <<>>
           /\ (~Head(Top.todo).string \/ Head(Top.todo).name = <<"?">>))
          => /\ Len(frames') = Len(frames)
             /\ UNCHANGED <<queries, sets, stacks, log>>]_vars
    /\ []((Idle /\ ret.op = "add_ordering")
            => annotation_select(queries[ret.q]) = ret.pre.selected)

\* order_by with two descending names, the second a property the query had
\* not annotated, has returned: the framework got both items with their '-',
\* the property is annotated and not selected.
C15_Witness ==
    /\ Idle
    /\ ret.op = "add_ordering"
    /\ ret.depth = 0
    /\ ret.result = "ok"
    /\ ret.ref \in Annotated(ret.q) \ ret.pre.annotated
    /\ annotation_name(ret.ref) \notin annotation_select(queries[ret.q])
    /\ log # <<>>
    /\ Last(log).call = "native_add_ordering"
    /\ Len(Last(log).args) = 2
    /\ Last(log).args[2].string
    /\ Last(log).args[2].name = <<"-">> \o full_path(ret.ref)

\* resolve_ref is about to run on a name that, behind the relation path of
\* the top of the stack, resolves to a property.
ResolveRefOfProperty ==
    /\ At("resolve_ref", "start")
    /\ LET prefixed == IF Stack(Top.q) # <<>>
                       THEN Last(Stack(Top.q)).relation_path \o Top.path
                       ELSE Top.path
       IN resolve_queryable_property(queries[Top.q].model, prefixed).ref # NoReference

\* A step in which a resolve_ref call ends.
ResolveRefEnds == ret' # ret /\ ret'.op = "resolve_ref"

\* C16: resolve_ref on a name that resolves to a property enters the
\* annotation context, not selecting, and when it returns the property is
\* annotated, selected only if it was before, and the value is the
\* annotation stored under its alias, or with summarize a Ref to that
\* annotation under the name given; on a name that resolves to no property
\* the framework's resolve_ref decides, its value is returned and the call
\* has annotated nothing.
C16_ResolveRefAnnotates ==
    /\ [][ResolveRefOfProperty =>
            \/ exc' = "RecursionError"
            \/ /\ Len(frames') = Len(frames) + 1
               /\ Top'.op = AnnotationOp
               /\ ~Top'.select
               /\ Top'.ref # NoReference
               /\ UNCHANGED <<queries, sets, stacks>>]_vars
    /\ [][(ResolveRefEnds /\ ret'.result = "ok" /\ ~ret'.native) =>
            LET alias == annotation_name(ret'.ref)
                query == queries'[ret'.q]
            IN /\ ret'.ref # NoReference
               /\ ret'.ref \in AnnotatedNext(ret'.q)
               /\ alias \in Aliases(query)
               /\ (alias \in annotation_select(query)) => alias \in ret'.pre.selected
               /\ ret'.value.annotation = query.annotations[alias]
               /\ ret'.value.annotation = AnnotationOf(ret'.ref)
               /\ ret'.value.kind = IF ret'.summarize THEN "Ref" ELSE "annotation"
               /\ ret'.summarize => ret'.value.name = PathStr(ret'.path)]_vars
    /\ [][(ResolveRefEnds /\ ret'.native) =>
            /\ ret'.ref = NoReference
            /\ ret'.result = "ok" => ret'.value = NativeValue(PathStr(ret'.path))
            /\ AnnotatedNext(ret'.q) = ret'.pre.annotated
            /\ Aliases(queries'[ret'.q]) = ret'.pre.aliases
            /\ annotation_select(queries'[ret'.q]) = ret'.pre.selected]_vars
    /\ [][(ResolveRefEnds /\ ret'.result = "ok") =>
            ret'.native = (ret'.ref = NoReference)]_vars

\* An outermost resolve_ref with summarize on a property the query had not
\* annotated has returned a Ref; the property is annotated and not selected.
C16_Witness ==
    /\ Idle
    /\ ret.op = "resolve_ref"
    /\ ret.depth = 0
    /\ ret.result = "ok"
    /\ ret.summarize
    /\ ret.value.kind = "Ref"
    /\ ret.value.name = PathStr(ret.path)
    /\ ret.ref \in Annotated(ret.q) \ ret.pre.annotated
    /\ ret.value.annotation = queries[ret.q].annotations[annotation_name(ret.ref)]
    /\ annotation_name(ret.ref) \notin annotation_select(queries[ret.q])

\* A step in which get_aggregation is called.
AggregationEnds == ret' # ret /\ ret'.op = "get_aggregation"

\* The aliases of the references a call found annotated when it started.
AnnotatedAliases(pre) == {annotation_name(ref) : ref \in pre.annotated}

\* C17: when get_aggregation starts with a mask that is not None and with
\* annotated references, the framework's get_aggregation runs under a mask
\* that holds the alias of every annotated reference and every name that was
\* in the mask, and nothing else; with a mask of None or without annotated
\* references it runs under the mask as it was.  The annotations and the set
\* are not touched.
C17_AggregationSelectsAnnotated ==
    [][AggregationEnds =>
         LET pre == ret'.pre
             native == Last(log')
         IN /\ native.call = "native_get_aggregation"
            /\ native.mask = queries'[ret'.q].annotation_select_mask
            /\ IF ~pre.mask.is_none /\ pre.annotated # {}
               THEN /\ ~native.mask.is_none
                    /\ native.mask.names = pre.mask.names \cup AnnotatedAliases(pre)
                    /\ pre.selected \cup AnnotatedAliases(pre)
                          \subseteq annotation_select(queries'[ret'.q])
               ELSE native.mask = pre.mask
            /\ queries'[ret'.q].annotations = queries[ret'.q].annotations
            /\ UNCHANGED <<sets, stacks>>]_vars

\* get_aggregation has run on a query with a selected alias and an annotated,
\* unselected property: both are selected now.
C17_Witness ==
    /\ Idle
    /\ ret.op = "get_aggregation"
    /\ ~ret.pre.mask.is_none
    /\ ret.pre.selected # {}
    /\ \E ref \in ret.pre.annotated :
          /\ annotation_name(ref) \notin ret.pre.selected
          /\ annotation_name(ref) \in annotation_select(queries[ret.q])
    /\ ret.pre.selected \subseteq annotation_select(queries[ret.q])

\* A step in which get_compiler is called and returns.
CompilerReturned == ret' # ret /\ ret'.op = "get_compiler" /\ ret'.result = "ok"

\* C18: get_compiler returns a compiler with the marking hook exactly if the
\* query's marker flag was set when it was called, and the flag is off once
\* it has returned; so a get_compiler call that follows another one on the
\* same query, with nothing in between, returns a compiler without the hook.
C18_MarkerConsumed ==
    /\ [][CompilerReturned =>
            /\ ret'.result = "ok"
            /\ ret'.hook = queries[ret'.q].use_querying_properties_marker
            /\ ~queries'[ret'.q].use_querying_properties_marker
            /\ ret'.before # "none" => ~ret'.hook
            /\ \A p \in QueryIds \ {ret'.q} : queries'[p] = queries[p]]_vars
    /\ []((Idle /\ ret.op = "get_compiler")
            => ~queries[ret.q].use_querying_properties_marker)

\* Two get_compiler calls in a row: the first returned a compiler with the
\* hook, the second one without.
C18_Witness ==
    /\ Idle
    /\ ret.op = "get_compiler"
    /\ ret.before = "hook"
    /\ ~ret.hook
    /\ ~ret.pre.marker

\* C19: a compiler with the marking hook yields the rows of the framework's
\* results_iter, as many and in the same order, each with the one value True
\* appended behind its last value; and its setup_query leaves the marker as
\* first entry of annotation_col_map, with index -1, followed by the
\* framework's entries in the framework's order.
C19_MarkerShapesRowsOnly ==
    (compiler.hook /\ compiler.phase # "new") =>
        /\ Len(compiler.annotation_col_map) = Len(compiler.native_col_map) + 1
        /\ compiler.annotation_col_map[1] = <<QUERYING_PROPERTIES_MARKER, -1>>
        /\ Tail(compiler.annotation_col_map) = compiler.native_col_map
        /\ Len(compiler.rows) <= Len(compiler.native_rows)
        /\ \A i \in 1..Len(compiler.rows) :
              /\ Len(compiler.rows[i]) = Len(compiler.native_rows[i]) + 1
              /\ Front(compiler.rows[i]) = compiler.native_rows[i]
              /\ Last(compiler.rows[i]) = "True"
        /\ compiler.phase = "done" => Len(compiler.rows) = Len(compiler.native_rows)

\* A compiler with the hook, on a query with a selected annotation, has
\* yielded two different rows to the end.
C19_Witness ==
    /\ compiler.hook
    /\ compiler.phase = "done"
    /\ Len(compiler.annotation_col_map) = 2
    /\ compiler.annotation_col_map[2][1] \in annotation_select(queries[compiler.q])
    /\ Len(compiler.rows) = 2
    /\ compiler.rows[1] # compiler.rows[2]

\* The property an ordering item other than '?' names once one leading '-' is
\* taken off, be the item a string or an expression, or NoReference.
NamedProperty(model, item) ==
    IF item.name = <<"?">> THEN NoReference
    ELSE resolve_queryable_property(
             model, IF item.name[1] = "-" THEN Tail(item.name) ELSE item.name).ref

\* An outermost build_filter, add_ordering or resolve_ref call none of whose
\* paths resolves to a property (the value of a filter is a plain value, no
\* expression that names a path).
PassThroughCall(frame) ==
    LET model == queries[frame.q].model IN
    \/ /\ frame.op \in {"build_filter", "resolve_ref"}
       /\ resolve_queryable_property(model, frame.path).ref = NoReference
       /\ frame.rhs = <<>>
    \/ /\ frame.op = "add_ordering"
       /\ \A i \in 1..Len(frame.leaves) :
             NamedProperty(model, frame.leaves[i]) = NoReference

\* The framework's method behind a method of the query.
NativeCall(op) ==
    CASE op = "build_filter" -> "native_build_filter"
      [] op = "add_ordering" -> "native_add_ordering"
      [] op = "resolve_ref" -> "native_resolve_ref"
      [] op = "names_to_path" -> "native_names_to_path"
      [] op = "get_aggregation" -> "native_get_aggregation"
      [] OTHER -> "none"

\* The event is the framework's call with the arguments of the frame.
SameArguments(event, frame) ==
    /\ event.call = NativeCall(frame.op)
    /\ event.q = frame.q
    /\ frame.op \in {"build_filter", "resolve_ref"} => event.path = frame.path
    /\ frame.op = "resolve_ref" => event.args = << frame.summarize >>
    /\ frame.op = "add_ordering" => event.args = frame.leaves

\* While such a call runs, the query is not touched and nothing is called
\* from it; when it ends, the framework's method has been called once, with
\* the arguments of the call, and its outcome is the outcome of the call.
PassThroughOfFrames ==
    /\ [][(frames # <<>> /\ PassThroughCall(frames[1])) =>
            /\ UNCHANGED <<queries, sets, stacks>>
            /\ Len(frames') <= 1]_vars
    /\ [][(Len(frames) = 1 /\ frames' = <<>> /\ PassThroughCall(frames[1])) =>
            /\ Len(log') = 1
            /\ SameArguments(log'[1], frames[1])
            /\ ret'.op = frames[1].op
            /\ ret'.native
            /\ ret'.result \in {"ok", "FieldError", "TypeError", "ValueError"}
            /\ (ret'.op = "resolve_ref" /\ ret'.result = "ok")
                  => ret'.value = NativeValue(PathStr(frames[1].path))]_vars

\* names_to_path on an empty stack: the framework's names_to_path gets the
\* names as they are, once, and the query is not touched.
PassThroughOfNamesToPath ==
    [][(ret'.op = "names_to_path" /\ ops' = ops + 1) =>
         /\ Len(log') = 1
         /\ log'[1].call = "native_names_to_path"
         /\ log'[1].path = ret'.path
         /\ ret'.native
         /\ UNCHANGED <<queries, sets, stacks>>]_vars

\* A get_aggregation call: the framework's get_aggregation runs once, under
\* the mask the call found, and the query is not touched.
AggregationPassesThrough ==
    /\ Len(log') = 1
    /\ log'[1].call = "native_get_aggregation"
    /\ log'[1].mask = ret'.pre.mask
    /\ ret'.native
    /\ UNCHANGED <<queries, sets, stacks>>

\* C20: on a query with an empty stack, a build_filter, add_ordering or
\* resolve_ref call none of whose paths resolves to a property, a
\* names_to_path call, and a get_aggregation call that finds no annotated
\* reference or a mask of None, each call the framework's method once with
\* the arguments given and end as it ends, and the annotations, the set of
\* annotated references, the stack, the mask and group_by stay as they were.
C20_PassThroughWithoutProperties ==
    /\ PassThroughOfFrames
    /\ PassThroughOfNamesToPath
    /\ [][(/\ ret'.op = "get_aggregation"
            /\ ops' = ops + 1
            /\ (ret'.pre.mask.is_none \/ ret'.pre.annotated = {}))
           => AggregationPassesThrough]_vars

\* The same of every get_aggregation call, whatever the query has annotated.
C20_PassThroughOnEmptyStack ==
    /\ PassThroughOfFrames
    /\ PassThroughOfNamesToPath
    /\ [][(ret'.op = "get_aggregation" /\ ops' = ops + 1)
           => AggregationPassesThrough]_vars

\* A get_aggregation call on a query with a selected property and a mask of
\* None has run the framework's method under that mask.
C20_Witness ==
    /\ Idle
    /\ ret.op = "get_aggregation"
    /\ ret.pre.annotated # {}
    /\ ret.pre.mask.is_none
    /\ Len(log) = 1
    /\ log[1].mask = NoMask
    /\ queries[ret.q].annotation_select_mask = NoMask

\* The errors of the framework's build_filter.
NativeErrors == {"FieldError", "TypeError", "ValueError"}

\* The expression of a build_filter frame is no pair, or its path resolves
\* to no property.
NamesNoProperty(frame) ==
    \/ frame.unpack # "ok"
    \/ resolve_queryable_property(queries[frame.q].model, frame.path).ref = NoReference

\* How the framework's build_filter ends on the expression of a frame.
NativeOutcome(frame) ==
    IF frame.unpack # "ok" THEN frame.unpack ELSE NativeBuildFilter(frame.q, frame.path)

\* C21: a build_filter call whose path resolves to no property, or whose
\* expression is no (path, value) pair, calls the framework's build_filter
\* and ends as that ends: with its error, if it raises one, and never with a
\* QueryablePropertyError; the call itself touches nothing and calls nothing
\* else (the framework may resolve an F() value), and with a plain value no
\* callback of a property is called.
C21_NativeErrorSurfaces ==
    /\ [][(At("build_filter", "start") /\ NamesNoProperty(Top)) =>
            /\ Len(log') = Len(log) + 1
            /\ Last(log').call = "native_build_filter"
            /\ Last(log').path = Top.path
            /\ exc' = IF NativeOutcome(Top) = "ok" THEN "none" ELSE NativeOutcome(Top)
            /\ exc' \in NativeErrors \cup {"none"}
            /\ \/ Len(frames') <= Len(frames)
               \/ /\ Top.rhs # <<>>
                  /\ NativeOutcome(Top) = "ok"
                  /\ Last(frames').op = "resolve_ref"
                  /\ Last(frames').path = Top.rhs
            /\ UNCHANGED <<queries, sets, stacks>>]_vars
    /\ [][(/\ Len(frames) = 1
            /\ frames' = <<>>
            /\ frames[1].op = "build_filter"
            /\ NamesNoProperty(frames[1])) =>
            /\ ret'.result = NativeOutcome(frames[1])
            /\ ret'.result # "QueryablePropertyError"
            /\ frames[1].rhs = <<>> => Len(log') = 1]_vars

\* A filter on a name that is no field and no property has ended with the
\* framework's FieldError, after the one call of the framework's build_filter.
C21_Witness ==
    /\ Idle
    /\ ret.op = "build_filter"
    /\ ret.depth = 0
    /\ ret.path = <<"non_existent_field">>
    /\ ret.result = "FieldError"
    /\ Len(log) = 1
    /\ log[1].call = "native_build_filter"

\* A build_filter call at its start whose path resolves to a property
\* without a filter implementation, not the one on top of the stack.
FilterOfUnfilterable ==
    /\ At("build_filter", "start")
    /\ Top.unpack = "ok"
    /\ LET ref == resolve_queryable_property(queries[Top.q].model, Top.path).ref
       IN /\ ref # NoReference
          /\ Property[ref.property].filter = "none"
          /\ ~(Stack(Top.q) # <<>> /\ Last(Stack(Top.q)) = ref)

\* C22: build_filter on a path that resolves to a property without a filter
\* implementation raises QueryablePropertyError without touching the query,
\* whether or not the property declares filter_requires_annotation; when the
\* outermost call has ended so, the set of annotated references, the
\* annotations, the mask and the stack are what they were when it started.
C22_UnimplementedFilterRaises ==
    /\ [][FilterOfUnfilterable =>
            /\ exc' = "QueryablePropertyError"
            /\ Len(frames') = Len(frames)
            /\ UNCHANGED <<queries, sets, stacks>>]_vars
    /\ []((/\ Idle
           /\ ret.op = "build_filter"
           /\ ret.depth = 0
           /\ ret.ref # NoReference
           /\ Property[ret.ref.property].filter = "none")
          => /\ ret.result = "QueryablePropertyError"
             /\ Annotated(ret.q) = ret.pre.annotated
             /\ Aliases(queries[ret.q]) = ret.pre.aliases
             /\ queries[ret.q].annotation_select_mask = ret.pre.mask
             /\ Stack(ret.q) = ret.pre.stack)

\* A filter on a property that declares filter_requires_annotation and has
\* no filter implementation has ended with QueryablePropertyError on a query
\* that has annotated nothing.
C22_Witness ==
    /\ Idle
    /\ ret.op = "build_filter"
    /\ ret.depth = 0
    /\ ret.ref # NoReference
    /\ Property[ret.ref.property].filter = "none"
    /\ Property[ret.ref.property].filter_requires_annotation
    /\ ret.result = "QueryablePropertyError"
    /\ Annotated(ret.q) = {}

\* The exception class behind the outcome of a call: the circular dependency
\* of query.py 142 and the missing get_annotation are both raised as
\* QueryablePropertyError.
ExceptionClass(result) ==
    IF result \in {"CircularDependency", "NoAnnotater", "QueryablePropertyError"}
    THEN "QueryablePropertyError"
    ELSE result

\* An outermost select_properties or add_ordering call has ended whose (last)
\* property has no annotation implementation.
UnannotatableEnds ==
    /\ Idle
    /\ ret.depth = 0
    /\ \/ ret.op = AnnotationOp /\ ret.select
       \/ ret.op = "add_ordering"
    /\ ret.ref # NoReference
    /\ ~Property[ret.ref.property].has_annotation

\* C23: the annotation context of a property without an annotation
\* implementation raises from get_annotation before anything is stored; a
\* select_properties or add_ordering call on such a property ends with
\* QueryablePropertyError, the reference is not among the annotated
\* references, no annotation is stored under its alias, the framework's
\* add_ordering was not called and the stack is as it was.
C23_UnimplementedAnnotationRaises ==
    /\ [][(/\ At(AnnotationOp, "try")
            /\ ~Property[Top.ref.property].has_annotation) =>
            /\ exc' = "NoAnnotater"
            /\ Last(log').call = "get_annotation"
            /\ UNCHANGED <<queries, sets>>]_vars
    /\ [](UnannotatableEnds =>
            /\ ret.result = "NoAnnotater"
            /\ ExceptionClass(ret.result) = "QueryablePropertyError"
            /\ ret.ref \notin Annotated(ret.q)
            /\ annotation_name(ret.ref) \notin Aliases(queries[ret.q])
            /\ Aliases(queries[ret.q]) = ret.pre.aliases
            /\ \A i \in 1..Len(log) : log[i].call # "native_add_ordering"
            /\ Stack(ret.q) = ret.pre.stack)

\* An ordering by a property without an annotation implementation has ended
\* with the error of get_annotation.
C23_Witness ==
    /\ UnannotatableEnds
    /\ ret.op = "add_ordering"
    /\ ret.result = "NoAnnotater"
    /\ \E i \in 1..Len(log) : log[i].call = "get_annotation" /\ log[i].ref = ret.ref

\* The relation path of the reference on top of the stack; empty on an
\* empty stack.
PrefixOfTop(q) ==
    IF Stack(q) = <<>> THEN <<>> ELSE Stack(q)[Len(Stack(q))].relation_path

\* The reference a step at the start of a call has found for the call's
\* path: the one the frame holds after the step, or the ended call held.
ActedOn ==
    IF Len(frames') >= Len(frames) THEN frames'[Len(frames)].ref ELSE ret'.ref

\* resolve_ref and add_aggregate resolve the path behind the relation path of
\* the top of the stack; names_to_path hands the names so prefixed to the
\* framework: called on an empty stack it hands them on unchanged, and under
\* a stack the framework's resolve_ref succeeds on the prefixed names.
PrefixedWhereResolved ==
    /\ [][(Running /\ Top.op \in {"resolve_ref", "add_aggregate"} /\ Top.pc = "start") =>
            ActedOn = resolve_queryable_property(
                          queries[Top.q].model, PrefixOfTop(Top.q) \o Top.path).ref]_vars
    /\ [][(/\ At("resolve_ref", "start")
            /\ Len(log') = Len(log) + 1
            /\ Last(log').call = "native_resolve_ref") =>
            (exc' = "none") <=>
               \/ PathStr(Top.path) \in Aliases(queries[Top.q])
               \/ /\ NativeNamesToPath(queries[Top.q], queries[Top.q].model,
                                       PrefixOfTop(Top.q) \o Top.path, 1)
                  /\ \A i \in 1..Len(Top.path) : Top.path[i] \notin NativeLookups]_vars
    /\ [][(ret'.op = "names_to_path" /\ ops' = ops + 1) =>
            /\ Stack(ret'.q) = <<>>
            /\ log'[1].path = ret'.path]_vars

UpdateCall == ret'.op = "update" /\ ops' = ops + 1

\* What a set of keyword arguments and the update kwargs of the properties
\* among them assign.
Expanded(model, kwargs) ==
    kwargs \cup UNION {get_update_kwargs(p[1], p[2]) :
                         p \in {k \in kwargs : /\ IsQueryableProperty(model, k[1])
                                                /\ HasUpdateKwargs(k[1])}}

\* Every assignment the keyword arguments lead to, through properties that
\* name properties (two levels deep, as version -> major_minor -> major).
Sources(model, kwargs) == Expanded(model, Expanded(model, kwargs))

\* The assignments to concrete columns among them.
ColumnSources(model, kwargs) ==
    {p \in Sources(model, kwargs) : ~IsQueryableProperty(model, p[1])}

\* Two sources assign different values to one column.
Conflicting(model, kwargs) ==
    \E a, b \in ColumnSources(model, kwargs) : a[1] = b[1] /\ a[2] # b[2]

\* A keyword names a property that has no get_update_kwargs.
Unimplemented(model, kwargs) ==
    \E p \in Sources(model, kwargs) :
        IsQueryableProperty(model, p[1]) /\ ~HasUpdateKwargs(p[1])

C26_OneUpdateOfMergedColumns ==
    [][(UpdateCall /\ ret'.result = "ok") =>
         LET model == queries[ret'.q].model
             kwargs == ret'.kwargs
             columns == log'[1].columns
         IN /\ Len(log') = 1
            /\ log'[1].call = "native_update"
            /\ columns = ColumnSources(model, kwargs)
            /\ \A a, b \in columns : a[1] = b[1] => a = b
            /\ \A c \in columns : ~IsQueryableProperty(model, c[1])
            /\ \A p \in kwargs :
                  /\ ~IsQueryableProperty(model, p[1]) => p \in columns
                  /\ p[1] = "version" =>
                        {<<"major", <<p[2][1]>> >>, <<"minor", <<p[2][2]>> >>,
                         <<"patch", <<p[2][3]>> >>} \subseteq columns
                  /\ p[1] = "major_minor" =>
                        {<<"major", <<p[2][1]>> >>, <<"minor", <<p[2][2]>> >>}
                           \subseteq columns]_vars

\* An update of version and major_minor with agreeing values has called the
\* framework's update once, with major, minor and patch.
C26_Witness ==
    /\ Idle
    /\ ret.op = "update"
    /\ ret.result = "ok"
    /\ Len(log) = 1
    /\ \E p \in ret.kwargs : p[1] = "version"
    /\ \E p \in ret.kwargs : p[1] = "major_minor"
    /\ {c[1] : c \in log[1].columns} = {"major", "minor", "patch"}

\* The context is behind its finally clause, at the GROUP BY setup.
AtGroupBy == At(AnnotationOp, "group_by")

\* C27: the GROUP BY setup of the annotation context runs after the
\* reference has been popped, and only when the context ends without an
\* exception: group_by becomes True for an annotation with an aggregate when
\* a full GROUP BY is asked for, what set_group_by computes for an annotation
\* with an aggregate otherwise, and stays as it is without an aggregate.
\* Nothing else changes group_by.
C27_GroupByAfterPop ==
    /\ [](AtGroupBy =>
            /\ ~Contains(Stack(Top.q), Top.ref)
            /\ Stack(Top.q) = Top.pre.stack
            /\ Top.annotation = queries[Top.q].annotations[annotation_name(Top.ref)])
    /\ [][AtGroupBy =>
            LET before == queries[Top.q].group_by
                after == queries'[Top.q].group_by
            IN /\ (contains_aggregate(Top.annotation) /\ Top.full_group_by)
                     => after = "True"
               /\ (contains_aggregate(Top.annotation) /\ ~Top.full_group_by)
                     => after = "Tuple"
               /\ ~contains_aggregate(Top.annotation) => after = before
               /\ ret'.op = AnnotationOp
               /\ ret'.result = "ok"
               /\ UNCHANGED <<sets, stacks>>]_vars
    /\ [][(\E q \in QueryIds : queries'[q].group_by # queries[q].group_by)
            => AtGroupBy]_vars

\* A selected aggregate property has set group_by to True, and a later call
\* that annotates without asking for a full GROUP BY has run set_group_by.
C27_Witness ==
    /\ Idle
    /\ ret.op = "build_filter"
    /\ ret.result = "ok"
    /\ ret.ref # NoReference
    /\ Property[ret.ref.property].aggregate
    /\ ret.ref \in ret.pre.annotated
    /\ annotation_name(ret.ref) \in ret.pre.selected
    /\ queries[ret.q].group_by = "Tuple"

\* An outermost add_aggregate call has returned.
AggregateAdded ==
    /\ Idle
    /\ ret.op = "add_aggregate"
    /\ ret.depth = 0
    /\ ret.result = "ok"

\* The calls of the log, in order.
Calls == [i \in 1..Len(log) |-> log[i].call]

\* C28: add_aggregate over a lookup that resolves to a property enters the
\* annotation context for it, not selecting, and then adds the aggregate
\* against the annotation, which exists by then, without the framework's
\* add_aggregate; over any other lookup it calls the framework's
\* add_aggregate once, with the model given or else the model of the query,
\* and no callback of a property; when either has returned, a mask that is
\* not None holds the alias of the aggregate.
C28_AggregateOverProperty ==
    /\ [][(/\ At("add_aggregate", "start")
            /\ resolve_queryable_property(queries[Top.q].model,
                                          PrefixOfTop(Top.q) \o Top.path).ref
                  # NoReference) =>
            /\ Len(frames') = Len(frames) + 1
            /\ Top'.op = AnnotationOp
            /\ ~Top'.select
            /\ Top'.ref = resolve_queryable_property(
                              queries[Top.q].model, PrefixOfTop(Top.q) \o Top.path).ref
            /\ UNCHANGED <<queries, sets, stacks, log>>]_vars
    /\ [][(/\ At("add_aggregate", "start")
            /\ resolve_queryable_property(queries[Top.q].model,
                                          PrefixOfTop(Top.q) \o Top.path).ref
                  = NoReference) =>
            /\ log' = Append(log, Last(log'))
            /\ Last(log').call = "native_add_aggregate"
            /\ Last(log').path = Top.path
            /\ Last(log').args = << IF Top.model = "None" THEN queries[Top.q].model
                                    ELSE Top.model >>
            /\ UNCHANGED <<sets, stacks>>]_vars
    /\ [](AggregateAdded =>
            LET query == queries[ret.q] IN
            /\ AggregateAlias \in Aliases(query)
            /\ ~query.annotation_select_mask.is_none
                  => AggregateAlias \in query.annotation_select_mask.names
            /\ IF ret.ref # NoReference
               THEN /\ ret.ref \in Annotated(ret.q)
                    /\ annotation_name(ret.ref) \in Aliases(query)
                    /\ annotation_name(ret.ref) \in annotation_select(query)
                          => annotation_name(ret.ref) \in ret.pre.selected
                    /\ Last(log).call = "add_to_query"
                    /\ Last(log).ref = ret.ref
                    /\ Last(log).annotated
                    /\ \A i \in 1..Len(log) : log[i].call # "native_add_aggregate"
               ELSE /\ Calls = << "native_add_aggregate" >>
                    /\ Annotated(ret.q) = ret.pre.annotated)

\* An aggregate over a property not annotated before has been added on a
\* query with a mask: the property is annotated and not selected, the alias
\* of the aggregate is in the mask.
C28_Witness ==
    /\ AggregateAdded
    /\ ret.ref # NoReference
    /\ ret.ref \notin ret.pre.annotated
    /\ ~ret.pre.mask.is_none
    /\ annotation_name(ret.ref) \notin annotation_select(queries[ret.q])
    /\ AggregateAlias \in queries[ret.q].annotation_select_mask.names

\* ------------------------------------------------------------------- C29
\* The columns the last get_columns call of the raw query returned are the
\* framework's columns behind the marker name.
ColumnsMarked ==
    /\ Len(raw.columns) = Len(RawColumns) + 1
    /\ raw.columns[1] = QUERYING_PROPERTIES_MARKER
    /\ \A i \in 1..Len(RawColumns) : raw.columns[i + 1] = RawColumns[i]

\* The i-th row the raw query yielded is the framework's i-th row behind the
\* value True.
RowMarked(i) ==
    /\ Len(raw.rows[i]) = Len(raw.native_rows[i]) + 1
    /\ raw.rows[i][1] = "True"
    /\ \A j \in 1..Len(raw.native_rows[i]) :
          raw.rows[i][j + 1] = raw.native_rows[i][j]

\* C29: for a raw query, get_columns returns the framework's columns with the
\* marker name inserted at index 0 when the flag is set at the call and the
\* framework's columns unchanged when it is not; iteration yields the
\* framework's rows one for one and in their order, each with True prepended
\* when the flag is set as it is yielded and unchanged when it is not.
C29_RawMarkerFirst ==
    /\ raw.got_columns =>
          IF raw.columns_marker THEN ColumnsMarked ELSE raw.columns = RawColumns
    /\ Len(raw.rows) <= Len(raw.native_rows)
    /\ raw.phase = "done" => Len(raw.rows) = Len(raw.native_rows)
    /\ \A i \in 1..Len(raw.rows) :
          IF raw.markers[i] THEN RowMarked(i)
          ELSE raw.rows[i] = raw.native_rows[i]

\* A raw query whose columns were taken with the flag set was iterated to
\* the end over two rows, the first yielded with the flag set and the second
\* after the flag was switched off.
C29_Witness ==
    /\ raw.phase = "done"
    /\ raw.got_columns
    /\ raw.columns_marker
    /\ Len(raw.rows) = 2
    /\ raw.markers[1]
    /\ ~raw.markers[2]

\* ------------------------------------------------------------------- C30
\* The annotation context has just raised the circular-dependency error for
\* the reference it was asked to annotate.
RaisesCircularDependency ==
    /\ exc = "CircularDependency"
    /\ frames # <<>>
    /\ Top.op = "_add_queryable_property_annotation"
    /\ Top.pc = "enter"

\* The reference is on the stack of the query the running call works on
\* and its annotation is not registered yet: its annotation is being built.
BuildingInProgress(q, ref) ==
    /\ \E i \in 1..Len(stacks[queries[q].stack_id]) :
          stacks[queries[q].stack_id][i] = ref
    /\ ref \notin sets[queries[q].annotations_id]

\* C30: a circular-dependency error is raised only for a reference whose
\* annotation is still being built; a reference to a property that is
\* annotated already and is on the stack only because its filter is being
\* applied reuses the annotation and does not raise.
C30_CircularOnlyWhileBuilding ==
    RaisesCircularDependency => BuildingInProgress(Top.q, Top.ref)

\* ------------------------------------------------------------------- C31
\* A step in which get_compiler is called on a query whose flag is `marker`
\* and ends as `result`.
CompilerCalled(result, marker) ==
    /\ Idle
    /\ compiler' # compiler \/ ret' # ret
    /\ compiler'.phase \in {"new", "none"}
    /\ ret'.op = "get_compiler"
    /\ ret'.result = result
    /\ queries[ret'.q].use_querying_properties_marker = marker

\* C31: the marker flag is off after every get_compiler call, whether the
\* framework's get_compiler returned or raised: a call that raises leaves no
\* compiler, ends with the framework's error and changes nothing but the
\* flag, which it does not put back.
C31_MarkerClearedAlsoOnFailure ==
    /\ [][\A result \in {"ok", "ValueError"}, marker \in BOOLEAN :
            CompilerCalled(result, marker) =>
                /\ ~queries'[ret'.q].use_querying_properties_marker
                /\ queries' = [queries EXCEPT
                       ![ret'.q].use_querying_properties_marker = FALSE]
                /\ ret'.pre.marker = marker
                /\ result = "ValueError" => compiler' = NoCompiler /\ ~ret'.hook
                /\ UNCHANGED <<sets, stacks, frames, exc>>]_vars
    /\ []((Idle /\ ret.op = "get_compiler")
            => ~queries[ret.q].use_querying_properties_marker)

\* get_compiler was called on a query with the flag set, the framework
\* raised, and the flag is off.
C31_Witness ==
    /\ Idle
    /\ ret.op = "get_compiler"
    /\ ret.result = "ValueError"
    /\ ret.pre.marker
    /\ ~queries[ret.q].use_querying_properties_marker
    /\ compiler = NoCompiler

\* ------------------------------------------------------------------- C32
\* An exception is passing through the annotation context of a reference
\* whose annotation was being built: get_annotation or add_annotation raised.
FailedBuild ==
    /\ exc # "none"
    /\ frames # <<>>
    /\ Top.op = "_add_queryable_property_annotation"
    /\ Top.pc \in {"try", "add_annotation"}

\* C32: when get_annotation or add_annotation raises for a reference that is
\* not annotated yet, the reference is not recorded as annotated then or
\* while the exception goes on, and group_by is not touched; no step ever
\* takes a reference out of a set of annotated references, so dependencies
\* whose annotation was completed before stay recorded.
C32_FailedAnnotationNotRecorded ==
    /\ [](FailedBuild => Top.ref \notin sets[queries[Top.q].annotations_id])
    /\ [][exc # "none" =>
            /\ sets' = sets
            /\ \A q \in DOMAIN queries :
                  /\ queries'[q].group_by = queries[q].group_by
                  /\ queries'[q].annotations = queries[q].annotations]_vars
    /\ [][\A i \in DOMAIN sets : sets[i] \subseteq sets'[i]]_vars

\* resolve_ref on broken has ended with the framework's FieldError: the
\* dependency changes_or_default, annotated during the call, is recorded,
\* broken is not, and group_by is as it was.
C32_Witness ==
    /\ Idle
    /\ ret.op = "resolve_ref"
    /\ ret.depth = 0
    /\ ret.result = "FieldError"
    /\ ret.ref.property = "broken"
    /\ ret.ref \notin sets[queries[ret.q].annotations_id]
    /\ ret.pre.annotated = {}
    /\ \E ref \in sets[queries[ret.q].annotations_id] :
          ref.property = "changes_or_default"
    /\ queries[ret.q].group_by = "None"

\* ------------------------------------------------------------------- C33
\* The string of the full path of the reference is an alias of the query.
HasAlias(q, ref) ==
    PathStr(ref.relation_path \o <<ref.property>>) \in DOMAIN queries[q].annotations

\* C33: in every state that filter, order, resolve_ref, aggregate and clone
\* calls lead to, every reference in the set of annotated references of a
\* query has the string of its full path among the aliases of the query's
\* annotations; a clone has this from the step that makes it.
C33_AnnotatedHaveAlias ==
    \A q \in DOMAIN queries :
        \A ref \in sets[queries[q].annotations_id] : HasAlias(q, ref)

\* A clone was made of a query with an annotated reference: the clone has
\* the reference in a set of its own and the alias among its annotations.
C33_Witness ==
    /\ Idle
    /\ ret.op = "chain"
    /\ ret.clone \in DOMAIN queries
    /\ queries[ret.clone].annotations_id # queries[ret.q].annotations_id
    /\ \E ref \in sets[queries[ret.clone].annotations_id] :
          /\ ref.relation_path # <<>>
          /\ HasAlias(ret.clone, ref)

\* ------------------------------------------------------------------- C34
\* A step in which the annotation context of a reference that was not
\* annotated when the context was entered comes to its end.
FirstAnnotationEnds ==
    /\ ret' # ret
    /\ ret'.op = "_add_queryable_property_annotation"
    /\ ret'.result = "ok"
    /\ ret'.ref \notin ret'.pre.annotated

\* The references annotated on the way: recorded after the step, not
\* recorded when the context was entered, and not the reference itself.
AnnotatedOnTheWay ==
    (sets'[queries'[ret'.q].annotations_id] \ ret'.pre.annotated) \ {ret'.ref}

\* The aliases selected after the step in the query of the context.
SelectedAfter ==
    IF queries'[ret'.q].annotation_select_mask.is_none
    THEN DOMAIN queries'[ret'.q].annotations
    ELSE DOMAIN queries'[ret'.q].annotations
            \cap queries'[ret'.q].annotation_select_mask.names

\* C34: when the annotation of a property A that was not annotated yet has
\* been added and properties B were annotated on the way through
\* resolve_ref, every B is recorded with its alias but not selected, every
\* alias selected before is still selected, and A is selected exactly if
\* the context was asked to select it.
C34_DependenciesNotSelected ==
    [][(FirstAnnotationEnds /\ AnnotatedOnTheWay # {}) =>
         /\ \A ref \in AnnotatedOnTheWay :
               /\ PathStr(ref.relation_path \o <<ref.property>>)
                     \in DOMAIN queries'[ret'.q].annotations
               /\ PathStr(ref.relation_path \o <<ref.property>>) \notin SelectedAfter
         /\ ~queries'[ret'.q].annotation_select_mask.is_none
         /\ ret'.pre.selected \subseteq SelectedAfter
         /\ ret'.select <=>
               PathStr(ret'.ref.relation_path \o <<ret'.ref.property>>)
                  \in SelectedAfter]_vars

\* lowered_version_changes was selected on a query with another selected
\* alias: it is selected, the property of the versions it is computed from
\* is annotated and not selected, and the other alias is still selected.
C34_Witness ==
    /\ Idle
    /\ ret.op = "_add_queryable_property_annotation"
    /\ ret.depth = 0
    /\ ret.result = "ok"
    /\ ret.select
    /\ ret.ref.property = "lowered_version_changes"
    /\ ret.ref \notin ret.pre.annotated
    /\ ret.pre.selected # {}
    /\ ret.pre.selected \subseteq annotation_select(queries[ret.q])
    /\ "lowered_version_changes" \in annotation_select(queries[ret.q])
    /\ \E ref \in sets[queries[ret.q].annotations_id] \ ret.pre.annotated :
          /\ ref.property = "changes_or_default"
          /\ PathStr(ref.relation_path \o <<ref.property>>)
                \notin annotation_select(queries[ret.q])

\* ------------------------------------------------------------------- C35
\* C35: whatever calls of mix_with_class threads make, one after the other
\* or interleaved, the calls with the same cache key return the same class
\* object, no two classes are created for one key, and a call without a
\* class name has the key of the call that names the base class.
C35_OneClassPerKey ==
    /\ \A a, b \in returned : a.key = b.key => a.class = b.class
    /\ \A i, j \in 1..Len(classes) : classes[i].reduce = classes[j].reduce => i = j
    /\ \A r \in returned : r.class # NoClass /\ classes[r.class].reduce = r.key

\* ------------------------------------------------------------------- C36
\* The two classes are the same mixed class: made from the same base class
\* and mixin under the same name, and the same object where the cache that
\* made the first is the cache that was asked for the second.
SameMixedClass(a, b) ==
    /\ a # NoClass
    /\ b # NoClass
    /\ classes[a].name = classes[b].name
    /\ classes[a].bases = classes[b].bases
    /\ classes[a].reduce = classes[b].reduce
    /\ created_classes[classes[a].reduce] \in {a, b}
    /\ created_classes[classes[a].reduce] = a => a = b

\* C36: an object of a mixed class that went through __reduce__ and the
\* unpickling function is, once pickle has restored its state, an object of
\* the same mixed class with an attribute dictionary equal to the
\* original's; the attributes init_injected_attrs set while unpickling have
\* the values of the pickled state.
C36_PickleRoundTrip ==
    /\ pickled.phase = "unpickled" =>
          pickled.restored.dict = InjectedAttrs(pickled.reduced.args[2])
    /\ pickled.phase = "restored" =>
          /\ SameMixedClass(pickled.original.class, pickled.restored.class)
          /\ pickled.restored.dict = pickled.original.dict
          /\ \A name \in DOMAIN pickled.fresh :
                pickled.restored.dict[name] = pickled.original.dict[name]

\* A query object whose injected attributes had other values than
\* init_injected_attrs gives, of a class named otherwise than its base
\* class, has come back from pickle.
C36_Witness ==
    /\ pickled.phase = "restored"
    /\ classes[pickled.original.class].name # classes[pickled.original.class].bases[2]
    /\ pickled.original.dict # pickled.fresh
    /\ DOMAIN pickled.fresh # {}
    /\ \E name \in DOMAIN pickled.fresh :
          pickled.fresh[name] # pickled.original.dict[name]

\* ------------------------------------------------------------------- C37
\* The child positions under the root that hold no node.
LeafPositions(nodes) ==
    {<<id, i>> \in Reachable(nodes, 1) \X (1..MaxItems + 1) :
        i <= Len(nodes[id]) /\ nodes[id][i].kind = "leaf"}

\* No node is the child of two positions under the root.
IsTree(nodes) ==
    \A a, b \in Reachable(nodes, 1) :
       \A i \in NodePositions(nodes[a]), j \in NodePositions(nodes[b]) :
          nodes[a][i].value = nodes[b][j].value => a = b /\ i = j

\* The tree returned has the shape of the input: node for node the same
\* number of children, nodes where the input has nodes.
SameShape ==
    \A id \in Reachable(tree.nodes, 1) :
       /\ Len(tree.result[tree.memo[id]]) = Len(tree.nodes[id])
       /\ \A i \in 1..Len(tree.nodes[id]) :
             LET before == tree.nodes[id][i]
                 after == tree.result[tree.memo[id]][i]
             IN /\ after.kind = before.kind
                /\ before.kind = "node" => after.value = tree.memo[before.value]

\* Every child that is no node has been replaced by func(child), and func
\* has been called once for each of them and for nothing else.
EveryLeafOnce ==
    /\ \A pos \in LeafPositions(tree.nodes) :
          /\ tree.result[tree.memo[pos[1]]][pos[2]].value =
                Apply(tree.func, tree.nodes[pos[1]][pos[2]].value)
          /\ Cardinality({k \in 1..Len(tree.applied) :
                             tree.applied[k] = <<tree.memo[pos[1]], pos[2]>>}) = 1
    /\ Len(tree.applied) = Cardinality(LeafPositions(tree.nodes))

\* copy=True: a new tree is returned and the input is as it was;
\* copy=False: the input node is returned and no node is made.
CopyOrInPlace ==
    IF tree.copy
    THEN /\ tree.returned > Len(tree.nodes)
         /\ \A id \in Reachable(tree.nodes, 1) : tree.memo[id] > Len(tree.nodes)
         /\ \A id \in 1..Len(tree.nodes) : tree.result[id] = tree.nodes[id]
    ELSE /\ tree.returned = 1
         /\ \A id \in Reachable(tree.nodes, 1) : tree.memo[id] = id
         /\ Len(tree.result) = Len(tree.nodes)

\* C37 as stated: whatever nodes are handed in, func is applied exactly once
\* to every child that is no node.
C37_OncePerLeaf ==
    tree.phase = "modified" => SameShape /\ EveryLeafOnce /\ CopyOrInPlace

\* C37: modify_tree_node returns a tree of the input's shape, a new one
\* with the input left unchanged for copy=True and the input node itself,
\* modified in place, for copy=False; where no node object is the child of
\* two positions, every child that is no node, at any depth, has been
\* replaced by func(child) with func called exactly once for it.
C37_ModifyTreeNode ==
    tree.phase = "modified" =>
        /\ SameShape
        /\ CopyOrInPlace
        /\ tree.returned = tree.memo[1]
        /\ IsTree(tree.nodes) => EveryLeafOnce

\* A copy was made of a tree with a leaf at the root and a leaf below a
\* child node, and func has changed both.
C37_Witness ==
    /\ tree.phase = "modified"
    /\ tree.copy
    /\ tree.func = "prefixed"
    /\ IsTree(tree.nodes)
    /\ \E pos, deep \in LeafPositions(tree.nodes) : pos[1] = 1 /\ deep[1] # 1
    /\ EveryLeafOnce

\* ------------------------------------------------------------------- C38
\* The item get_list_filter returned at position i stands for the item of
\* the base list_filter at i: a callable untouched, any other replaced by
\* the filter creator of its field name and filter class if and only if
\* the name is a queryable property of the admin's model.
ExpandedAt(i) ==
    LET item == admin.list_filter[i]
        expanded == admin.expanded_filters[i]
    IN IF item.kind = "callable"
       THEN expanded = item
       ELSE IF IsQueryableProperty(admin.model, item.field_name)
       THEN expanded = FilterCreator(item.field_name, item.filter_class)
       ELSE expanded = item

\* C38: get_list_filter returns a list as long as the base list_filter and
\* in its order; callable items are passed through, an item that is a name
\* or a (name, filter class) pair is replaced by a property filter creator
\* only when the name resolves to a queryable property, and is kept when
\* the resolution raises QueryablePropertyError, which never escapes.
C38_ListFilterExpanded ==
    /\ admin.phase # "raised"
    /\ admin.error = "None"
    /\ Len(admin.expanded_filters) <= Len(admin.list_filter)
    /\ \A i \in 1..Len(admin.expanded_filters) : ExpandedAt(i)
    /\ admin.phase = "returned" =>
          Len(admin.expanded_filters) = Len(admin.list_filter)

\* A list with a callable, a property and a field that is no property (one
\* of them given as a pair) has been expanded and returned.
C38_Witness ==
    /\ admin.phase = "returned"
    /\ \E i, j, k \in 1..Len(admin.list_filter) :
          /\ admin.list_filter[i].kind = "callable"
          /\ admin.list_filter[j].kind \in {"name", "pair"}
          /\ admin.expanded_filters[j].kind = "creator"
          /\ admin.list_filter[k].kind \in {"name", "pair"}
          /\ admin.expanded_filters[k] = admin.list_filter[k]
          /\ "pair" \in {admin.list_filter[j].kind, admin.list_filter[k].kind}
          /\ GetFilterCreator(admin.model, admin.list_filter[k].field_name,
                              admin.list_filter[k].filter_class).raised
                = "QueryablePropertyError"

====
